---- MODULE Spec2Model ----
(***************************************************************************)
(* A model of package freeze (Pointer, Slice, Map, Object and the helpers  *)
(* copyAndFreeze and mapFreeze) over an explicit memory: Go heap blocks,   *)
(* mmap'ed regions with page protection, the finalizers registered on the  *)
(* regions, and a caller that freezes a root, reads and writes through the *)
(* references it holds, and appends to slices and updates maps.            *)
(***************************************************************************)
EXTENDS Integers, Sequences, FiniteSets, TLC

VARIABLES mem, orig, cur, status, hist, last, nops

vars == <<mem, orig, cur, status, hist, last, nops>>

----------------------------------------------------------------------------
(* Bounds of the model and constants of the program.                       *)

\* number of addresses mmap can hand out
MaxRegions == 4
\* number of calls of Pointer/Slice/Map/Object in one behaviour
MaxCalls == 2

\* number of caller operations (stores, appends, map operations) in one
\* behaviour
MaxOps == 1

\* number of frames the stack has room for in one call of Object
MaxDepth == 6

\* unix.Getpagesize()
PageSize == 4096
\* unsafe.Sizeof(hmap{})
HmapSize == 48
\* unsafe.Sizeof(int(0)): a machine word (int, pointer, map reference)
WordSize == 8
\* const offset = unsafe.Sizeof(int(0)): the size of hmap.count, hmap's first field
CountSize == WordSize
\* a slice header is the [3]uintptr {data, len, cap}
SliceHeaderSize == 3 * WordSize
\* spare Go heap addresses (for reflect.MakeMap and append)
SpareHeap == 2

----------------------------------------------------------------------------
(* Types (what reflect.Type tells the library).                            *)

TInt == [kind |-> "Int"]
TEmpty == [kind |-> "Struct", fields |-> <<>>]
TPtr(T) == [kind |-> "Ptr", elem |-> T]
TSlice(T) == [kind |-> "Slice", elem |-> T]
TArray(T, n) == [kind |-> "Array", elem |-> T, len |-> n]
TMap(K, E) == [kind |-> "Map", key |-> K, elem |-> E]
TStruct(fs) == [kind |-> "Struct", fields |-> fs]
THmap == [kind |-> "Hmap"]
TBuckets == [kind |-> "Buckets"]
TNil == [kind |-> "Nil"]

Field(n, T, exp, anon) == [name |-> n, typ |-> T, exported |-> exp, anonymous |-> anon]

\* type foo struct { F *int; g *int }
TFoo == TStruct(<<Field("F", TPtr(TInt), TRUE, FALSE), Field("g", TPtr(TInt), FALSE, FALSE)>>)

\* type inner struct { P *int }; type outer struct { inner }: an embedded
\* field of an unexported type
TInner == TStruct(<<Field("P", TPtr(TInt), TRUE, FALSE)>>)
TOuter == TStruct(<<Field("inner", TInner, FALSE, TRUE)>>)

\* a type referred to by its name, as a type that mentions itself must be
TRef(n) == [kind |-> "Named", name |-> n]
\* type node struct { Next *node }
TNode == TStruct(<<Field("Next", TPtr(TRef("node")), TRUE, FALSE)>>)
\* type hidden struct { next *hidden }
THidden == TStruct(<<Field("next", TPtr(TRef("hidden")), FALSE, FALSE)>>)
\* type spoke struct { H *hub }; type hub struct { spoke }
TSpoke == TStruct(<<Field("H", TPtr(TRef("hub")), TRUE, FALSE)>>)
THub == TStruct(<<Field("spoke", TSpoke, FALSE, TRUE)>>)
\* type chain struct { P *int; Next *chain }
TChain == TStruct(<<Field("P", TPtr(TInt), TRUE, FALSE),
                    Field("Next", TPtr(TRef("chain")), TRUE, FALSE)>>)
\* the type a name stands for
Resolve(T) ==
  IF T.kind # "Named" THEN T
  ELSE CASE T.name = "node" -> TNode
         [] T.name = "hidden" -> THidden
         [] T.name = "hub" -> THub
         [] OTHER -> TChain

RECURSIVE Size(_), FieldOffset(_, _)
\* reflect.Type.Size()
Size(T) ==
  CASE T.kind = "Int" -> WordSize
    [] T.kind = "Ptr" -> WordSize
    [] T.kind = "Map" -> WordSize
    [] T.kind = "Slice" -> SliceHeaderSize
    [] T.kind = "Array" -> T.len * Size(T.elem)
    [] T.kind = "Struct" -> FieldOffset(T, Len(T.fields) + 1)
    [] T.kind = "Hmap" -> HmapSize
    [] OTHER -> 0

\* byte offset of the i-th field of struct type T
FieldOffset(T, i) ==
  IF i = 1 THEN 0 ELSE FieldOffset(T, i - 1) + Size(T.fields[i - 1].typ)

----------------------------------------------------------------------------
(* Values.                                                                 *)

IntV(n) == [k |-> "int", n |-> n]
PtrV(a) == [k |-> "ptr", a |-> a]
MapV(a) == [k |-> "map", a |-> a]
SliceV(d, l, c) == [k |-> "slice", data |-> d, len |-> l, cap |-> c]
StructV(fs) == [k |-> "struct", e |-> fs]
ArrayV(es) == [k |-> "array", e |-> es]
HmapV(c, f, b) == [k |-> "hmap", count |-> c, flags |-> f, buckets |-> b]
BucketsV(ents) == [k |-> "buckets", ents |-> ents]
NilV == [k |-> "nil"]

\* an interface value: dynamic type and data word
Iface(T, v) == [t |-> T, v |-> v]
NilIface == Iface(TNil, NilV)

RECURSIVE Zero(_)
\* the zero value of a type (what freshly mapped, zero-filled memory reads as)
Zero(T) ==
  CASE T.kind = "Int" -> IntV(0)
    [] T.kind = "Ptr" -> PtrV(0)
    [] T.kind = "Map" -> MapV(0)
    [] T.kind = "Slice" -> SliceV(0, 0, 0)
    [] T.kind = "Array" -> ArrayV([i \in 1..T.len |-> Zero(T.elem)])
    [] T.kind = "Struct" -> StructV([i \in 1..Len(T.fields) |-> Zero(T.fields[i].typ)])
    [] T.kind = "Hmap" -> HmapV(0, 0, 0)
    [] T.kind = "Buckets" -> BucketsV({})
    [] OTHER -> NilV

----------------------------------------------------------------------------
(* Memory: a block per address.  Heap blocks belong to the Go heap and are *)
(* always writable.  A mapped block is a region obtained from unix.Mmap:   *)
(* the object starts at byte off of the mapping, the mapping is mlen bytes *)
(* long and the bytes [rofrom, roto) were handed to unix.Mprotect; fin     *)
(* tells that the finalizer set on the mapping has not run yet.  For a     *)
(* free address, sys is what the kernel will answer when the library next  *)
(* maps memory there: "ok", or the call that fails, "mmap" or "mprotect".  *)

FreeBlock == [st |-> "free", typ |-> TNil, val |-> NilV, off |-> 0, mlen |-> 0,
              rofrom |-> 0, roto |-> 0, fin |-> FALSE, sys |-> "ok"]
HeapBlock(T, v) == [st |-> "heap", typ |-> T, val |-> v, off |-> 0, mlen |-> 0,
                    rofrom |-> 0, roto |-> 0, fin |-> FALSE, sys |-> "ok"]

\* the caller's objects on the Go heap, by address:
\*   1: x = 1          2: y = 0          3: foo{F: &x, g: &y}
\*   4: [2]int{1, 0}   5: [1]*int{&x}
\*   6, 7: map[int]int{1: 1} and its buckets      8: map[int]int{}
\*   9, 10: map[int]*int{1: &y} and its buckets   11: struct{}{}
InitHeap ==
  << HeapBlock(TInt, IntV(1)),
     HeapBlock(TInt, IntV(0)),
     HeapBlock(TFoo, StructV(<<PtrV(1), PtrV(2)>>)),
     HeapBlock(TArray(TInt, 2), ArrayV(<<IntV(1), IntV(0)>>)),
     HeapBlock(TArray(TPtr(TInt), 1), ArrayV(<<PtrV(1)>>)),
     HeapBlock(THmap, HmapV(1, 0, 7)),
     HeapBlock(TBuckets, BucketsV({[key |-> IntV(1), val |-> IntV(1)]})),
     HeapBlock(THmap, HmapV(0, 0, 0)),
     HeapBlock(THmap, HmapV(1, 0, 10)),
     HeapBlock(TBuckets, BucketsV({[key |-> IntV(1), val |-> PtrV(2)]})),
     HeapBlock(TEmpty, StructV(<<>>)) >>

HeapSize == Len(InitHeap) + SpareHeap
HeapAddrs == 1..HeapSize
MmapAddrs == (HeapSize + 1)..(HeapSize + MaxRegions)
Addrs == HeapAddrs \cup MmapAddrs

InitMem == [a \in Addrs |-> IF a <= Len(InitHeap) THEN InitHeap[a] ELSE FreeBlock]

\* the values the caller may hand to the library
Roots ==
  { NilIface,
    Iface(TPtr(TInt), PtrV(1)), Iface(TPtr(TInt), PtrV(0)),
    Iface(TPtr(TEmpty), PtrV(11)),
    Iface(TSlice(TInt), SliceV(4, 0, 2)), Iface(TSlice(TInt), SliceV(4, 1, 2)),
    Iface(TSlice(TInt), SliceV(4, 2, 2)), Iface(TSlice(TInt), SliceV(0, 0, 0)),
    Iface(TSlice(TPtr(TInt)), SliceV(5, 1, 1)),
    Iface(TMap(TInt, TInt), MapV(6)), Iface(TMap(TInt, TInt), MapV(8)),
    Iface(TMap(TInt, TInt), MapV(0)),
    Iface(TMap(TInt, TPtr(TInt)), MapV(9)),
    Iface(TPtr(TFoo), PtrV(3)),
    Iface(TInt, IntV(1)) }

\* a second heap, of objects that share parts and nest deeper, by address:
\*   1: x = 1          2: y = 0          3: p = &x         4: pp = &p
\*   5: [2]***int{&pp, &pp}              6: outer{inner{P: &x}}
\*   7, 8: map[int]foo{1: foo{F: &x, g: &y}} and its buckets
\*   9: [2]*int{&x, &x}
GraphHeap ==
  << HeapBlock(TInt, IntV(1)),
     HeapBlock(TInt, IntV(0)),
     HeapBlock(TPtr(TInt), PtrV(1)),
     HeapBlock(TPtr(TPtr(TInt)), PtrV(3)),
     HeapBlock(TArray(TPtr(TPtr(TPtr(TInt))), 2), ArrayV(<<PtrV(4), PtrV(4)>>)),
     HeapBlock(TOuter, StructV(<<StructV(<<PtrV(1)>>)>>)),
     HeapBlock(THmap, HmapV(1, 0, 8)),
     HeapBlock(TBuckets,
               BucketsV({[key |-> IntV(1), val |-> StructV(<<PtrV(1), PtrV(2)>>)]})),
     HeapBlock(TArray(TPtr(TInt), 2), ArrayV(<<PtrV(1), PtrV(1)>>)) >>

GraphMem == [a \in Addrs |-> IF a <= Len(GraphHeap) THEN GraphHeap[a] ELSE FreeBlock]

\* the values the caller hands to the library from the second heap
GraphRoots ==
  { Iface(TPtr(TPtr(TInt)), PtrV(3)),
    Iface(TPtr(TPtr(TPtr(TInt))), PtrV(4)),
    Iface(TSlice(TPtr(TPtr(TPtr(TInt)))), SliceV(5, 2, 2)),
    Iface(TSlice(TPtr(TInt)), SliceV(9, 2, 2)),
    Iface(TPtr(TOuter), PtrV(6)),
    Iface(TMap(TInt, TFoo), MapV(7)) }

\* a third heap, of linked structs: a node that points to itself, two nodes
\* that point to each other, a list of two nodes, a hidden that points to
\* itself through its unexported field, a hub whose embedded spoke points
\* back to it, and a chain that points to an int and to itself
WalkHeap ==
  << HeapBlock(TNode, StructV(<<PtrV(1)>>)),
     HeapBlock(TNode, StructV(<<PtrV(3)>>)),
     HeapBlock(TNode, StructV(<<PtrV(2)>>)),
     HeapBlock(TNode, StructV(<<PtrV(5)>>)),
     HeapBlock(TNode, StructV(<<PtrV(0)>>)),
     HeapBlock(THidden, StructV(<<PtrV(6)>>)),
     HeapBlock(THub, StructV(<<StructV(<<PtrV(7)>>)>>)),
     HeapBlock(TInt, IntV(1)),
     HeapBlock(TChain, StructV(<<PtrV(8), PtrV(9)>>)),
     HeapBlock(TArray(TPtr(TNode), 2), ArrayV(<<PtrV(4), PtrV(2)>>)) >>

WalkMem == [a \in Addrs |-> IF a <= Len(WalkHeap) THEN WalkHeap[a] ELSE FreeBlock]

\* the values the caller hands to the library from the third heap
WalkRoots ==
  { Iface(TPtr(TNode), PtrV(1)), Iface(TPtr(TNode), PtrV(2)),
    Iface(TPtr(TNode), PtrV(4)), Iface(TPtr(TNode), PtrV(5)),
    Iface(TPtr(THidden), PtrV(6)),
    Iface(TPtr(THub), PtrV(7)),
    Iface(TPtr(TChain), PtrV(9)),
    Iface(TSlice(TPtr(TNode)), SliceV(10, 1, 2)),
    Iface(TSlice(TPtr(TNode)), SliceV(10, 2, 2)) }

\* the kernel maps and protects whole pages
RoundUp(n) == ((n + PageSize - 1) \div PageSize) * PageSize

\* the outcome of touching bytes [o, o+n) of the object at address a:
\* "ok", "fault" (unmapped or protected memory: an unrecoverable fault) or
\* "nilpanic" (the zero page: Go's nil-dereference panic)
Access(m, a, o, n, mode) ==
  IF n = 0 THEN "ok"
  ELSE IF a = 0 THEN "nilpanic"
  ELSE LET b == m[a] IN
    CASE b.st = "heap" -> "ok"
      [] b.st = "foreign" -> "ok"
      [] b.st = "mapped" ->
           LET lo == b.off + o
               hi == lo + n
           IN IF hi > RoundUp(b.mlen) THEN "fault"
              ELSE IF mode = "w" /\ b.roto > b.rofrom
                      /\ lo < RoundUp(b.roto) /\ hi > b.rofrom THEN "fault"
              ELSE "ok"
      [] OTHER -> "fault"

RECURSIVE PathOffset(_, _), PathType(_, _), GetPath(_, _), SetPath(_, _, _)
\* byte offset, inside a value of type T, of the component that path p selects
PathOffset(T, p) ==
  IF p = <<>> THEN 0
  ELSE IF T.kind = "Struct"
       THEN FieldOffset(T, p[1]) + PathOffset(T.fields[p[1]].typ, Tail(p))
       ELSE (p[1] - 1) * Size(T.elem) + PathOffset(T.elem, Tail(p))

PathType(T, p) ==
  IF p = <<>> THEN T
  ELSE IF T.kind = "Struct" THEN PathType(T.fields[p[1]].typ, Tail(p))
       ELSE PathType(T.elem, Tail(p))

GetPath(v, p) == IF p = <<>> THEN v ELSE GetPath(v.e[p[1]], Tail(p))

SetPath(v, p, x) ==
  IF p = <<>> THEN x ELSE [v EXCEPT !.e[p[1]] = SetPath(@, Tail(p), x)]

\* a location: the component at path p of the object at address a
Loc(a, p) == [a |-> a, p |-> p]
NoLoc == Loc(0, <<>>)

\* reading a T at a location
Load(m, loc, T) ==
  LET b == m[loc.a]
      acc == IF loc.a = 0 THEN "nilpanic"
             ELSE Access(m, loc.a, PathOffset(b.typ, loc.p), Size(T), "r")
  IN IF Size(T) = 0 THEN [st |-> "ok", v |-> Zero(T)]
     ELSE IF acc # "ok" THEN [st |-> acc, v |-> Zero(T)]
     ELSE IF b.st = "foreign" THEN [st |-> "ok", v |-> Zero(T)]
     ELSE [st |-> "ok", v |-> GetPath(b.val, loc.p)]

\* writing the T-value x at a location
Store(m, loc, x, T) ==
  LET b == m[loc.a]
      acc == IF loc.a = 0 THEN "nilpanic"
             ELSE Access(m, loc.a, PathOffset(b.typ, loc.p), Size(T), "w")
  IN IF Size(T) = 0 THEN [st |-> "ok", m |-> m]
     ELSE IF acc # "ok" THEN [st |-> acc, m |-> m]
     ELSE IF b.st = "foreign" THEN [st |-> "ok", m |-> m]
     ELSE [st |-> "ok", m |-> [m EXCEPT ![loc.a].val = SetPath(@, loc.p, x)]]

\* the n = Size(T) bytes at address a, read as a T (the source of a copy):
\* the whole object, or the first T.len elements of a longer array
ReadAs(m, a, T) ==
  LET acc == Access(m, a, 0, Size(T), "r") IN
  IF acc # "ok" THEN [st |-> acc, v |-> Zero(T)]
  ELSE IF Size(T) = 0 THEN [st |-> "ok", v |-> Zero(T)]
  ELSE LET b == m[a] IN
    IF b.st = "foreign" THEN [st |-> "ok", v |-> Zero(T)]
    ELSE IF b.typ = T THEN [st |-> "ok", v |-> b.val]
    ELSE IF T.kind = "Array" /\ b.typ.kind = "Array" /\ T.len <= b.typ.len
      THEN [st |-> "ok", v |-> ArrayV([i \in 1..T.len |-> b.val.e[i]])]
    ELSE [st |-> "ok", v |-> Zero(T)]

----------------------------------------------------------------------------
(* The freezing primitives.                                                *)

FreeRegions(m) == {a \in MmapAddrs : m[a].st = "free"}
\* the address unix.Mmap returns
NewRegion(m) == CHOOSE a \in FreeRegions(m) : \A b \in FreeRegions(m) : a <= b

\* a region of mlen bytes holding v at byte off, with [rofrom, roto) read-only
\* and the finalizer set
Region(T, v, off, mlen, rofrom, roto) ==
  [st |-> "mapped", typ |-> T, val |-> v, off |-> off, mlen |-> mlen,
   rofrom |-> rofrom, roto |-> roto, fin |-> TRUE, sys |-> "ok"]

\* a region just mapped, zero-filled and writable, into which the copy has not
\* been made; sys is the answer the kernel still holds for unix.Mprotect
Unfilled(T, off, mlen, sys) ==
  [Region(T, Zero(T), off, mlen, 0, 0) EXCEPT !.sys = sys]

\* copyAndFreeze ending the process, as a fault does, when unix.Mmap or
\* unix.Mprotect fails
copyAndFreezeFatal(m, dataptr, n, T) ==
  IF n = 0 THEN [st |-> "ok", m |-> m, a |-> dataptr]
  ELSE IF FreeRegions(m) = {} THEN [st |-> "oom", m |-> m, a |-> dataptr]
  ELSE LET na == NewRegion(m)
           rd == ReadAs(m, dataptr, T)
       IN IF m[na].sys = "mmap"
          THEN [st |-> "fault", m |-> [m EXCEPT ![na].sys = "ok"], a |-> dataptr]
          ELSE IF rd.st # "ok"
          THEN [st |-> rd.st,
                m |-> [m EXCEPT ![na] = Unfilled(T, 0, n, m[na].sys)],
                a |-> dataptr]
          ELSE IF m[na].sys = "mprotect"
          THEN [st |-> "fault", m |-> [m EXCEPT ![na] = Region(T, rd.v, 0, n, 0, 0)],
                a |-> dataptr]
          ELSE [st |-> "ok", m |-> [m EXCEPT ![na] = Region(T, rd.v, 0, n, 0, n)],
                a |-> na]

\* copyAndFreeze without the call of runtime.SetFinalizer
copyAndFreezeNoFinalizer(m, dataptr, n, T) ==
  IF n = 0 THEN [st |-> "ok", m |-> m, a |-> dataptr]
  ELSE IF FreeRegions(m) = {} THEN [st |-> "oom", m |-> m, a |-> dataptr]
  ELSE LET na == NewRegion(m)
           rd == ReadAs(m, dataptr, T)
       IN IF m[na].sys = "mmap"
          THEN [st |-> "panic", m |-> [m EXCEPT ![na].sys = "ok"], a |-> dataptr]
          ELSE IF rd.st # "ok"
          THEN [st |-> rd.st,
                m |-> [m EXCEPT ![na] = [Unfilled(T, 0, n, m[na].sys) EXCEPT !.fin = FALSE]],
                a |-> dataptr]
          ELSE IF m[na].sys = "mprotect"
          THEN [st |-> "panic",
                m |-> [m EXCEPT ![na] = [Region(T, rd.v, 0, n, 0, 0) EXCEPT !.fin = FALSE]],
                a |-> dataptr]
          ELSE [st |-> "ok",
                m |-> [m EXCEPT ![na] = [Region(T, rd.v, 0, n, 0, n) EXCEPT !.fin = FALSE]],
                a |-> na]

\* copyAndFreeze going on to return the new address when unix.Mprotect fails
copyAndFreezeUnchecked(m, dataptr, n, T) ==
  IF n = 0 THEN [st |-> "ok", m |-> m, a |-> dataptr]
  ELSE IF FreeRegions(m) = {} THEN [st |-> "oom", m |-> m, a |-> dataptr]
  ELSE LET na == NewRegion(m)
           rd == ReadAs(m, dataptr, T)
       IN IF m[na].sys = "mmap"
          THEN [st |-> "panic", m |-> [m EXCEPT ![na].sys = "ok"], a |-> dataptr]
          ELSE IF rd.st # "ok"
          THEN [st |-> rd.st, m |-> [m EXCEPT ![na] = Unfilled(T, 0, n, m[na].sys)],
                a |-> dataptr]
          ELSE IF m[na].sys = "mprotect"
          THEN [st |-> "ok", m |-> [m EXCEPT ![na] = Region(T, rd.v, 0, n, 0, 0)],
                a |-> na]
          ELSE [st |-> "ok", m |-> [m EXCEPT ![na] = Region(T, rd.v, 0, n, 0, n)],
                a |-> na]

\* copyAndFreeze with the n == 0 test left out
copyAndFreezeNoZeroTest(m, dataptr, n, T) ==
  IF FreeRegions(m) = {} THEN [st |-> "oom", m |-> m, a |-> dataptr]
  ELSE LET na == NewRegion(m)
           rd == ReadAs(m, dataptr, T)
       IN IF m[na].sys = "mmap"
          THEN [st |-> "panic", m |-> [m EXCEPT ![na].sys = "ok"], a |-> dataptr]
          ELSE IF rd.st # "ok"
          THEN [st |-> rd.st, m |-> [m EXCEPT ![na] = Unfilled(T, 0, n, m[na].sys)],
                a |-> dataptr]
          ELSE IF m[na].sys = "mprotect"
          THEN [st |-> "panic", m |-> [m EXCEPT ![na] = Region(T, rd.v, 0, n, 0, 0)],
                a |-> dataptr]
          ELSE [st |-> "ok", m |-> [m EXCEPT ![na] = Region(T, rd.v, 0, n, 0, n)],
                a |-> na]

\* copyAndFreeze(dataptr, n): copies the n bytes at dataptr (a T) into new
\* memory, freezes it and returns the new address; panic(err) when unix.Mmap
\* or unix.Mprotect fails
copyAndFreeze(m, dataptr, n, T) ==
  IF n = 0 THEN [st |-> "ok", m |-> m, a |-> dataptr]
  ELSE IF FreeRegions(m) = {} THEN [st |-> "oom", m |-> m, a |-> dataptr]
  ELSE LET na == NewRegion(m)
           rd == ReadAs(m, dataptr, T)
       IN IF m[na].sys = "mmap"
          THEN [st |-> "panic", m |-> [m EXCEPT ![na].sys = "ok"], a |-> dataptr]
          ELSE IF rd.st # "ok"
          THEN [st |-> rd.st, m |-> [m EXCEPT ![na] = Unfilled(T, 0, n, m[na].sys)],
                a |-> dataptr]
          ELSE IF m[na].sys = "mprotect"
          THEN [st |-> "panic", m |-> [m EXCEPT ![na] = Region(T, rd.v, 0, n, 0, 0)],
                a |-> dataptr]
          ELSE [st |-> "ok", m |-> [m EXCEPT ![na] = Region(T, rd.v, 0, n, 0, n)],
                a |-> na]

\* mapFreeze freezing the left page, newMem[:pageSize], as its comment has it
mapFreezeLeftPage(m, dataptr) ==
  IF FreeRegions(m) = {} THEN [st |-> "oom", m |-> m, a |-> dataptr]
  ELSE LET na == NewRegion(m)
           rd == ReadAs(m, dataptr, THmap)
           mlen == PageSize + (HmapSize - CountSize)
           off == PageSize - CountSize
       IN IF m[na].sys = "mmap"
          THEN [st |-> "panic", m |-> [m EXCEPT ![na].sys = "ok"], a |-> dataptr]
          ELSE IF rd.st # "ok"
          THEN [st |-> rd.st,
                m |-> [m EXCEPT ![na] = Unfilled(THmap, off, mlen, m[na].sys)],
                a |-> dataptr]
          ELSE IF m[na].sys = "mprotect"
          THEN [st |-> "panic",
                m |-> [m EXCEPT ![na] = Region(THmap, rd.v, off, mlen, 0, 0)],
                a |-> dataptr]
          ELSE [st |-> "ok",
                m |-> [m EXCEPT ![na] = Region(THmap, rd.v, off, mlen, 0, PageSize)],
                a |-> na]

\* mapFreeze(dataptr): copies the hmap at dataptr onto the boundary of two new
\* pages and freezes newMem[pageSize:]
mapFreeze(m, dataptr) ==
  IF FreeRegions(m) = {} THEN [st |-> "oom", m |-> m, a |-> dataptr]
  ELSE LET na == NewRegion(m)
           rd == ReadAs(m, dataptr, THmap)
           mlen == PageSize + (HmapSize - CountSize)
           off == PageSize - CountSize
       IN IF m[na].sys = "mmap"
          THEN [st |-> "panic", m |-> [m EXCEPT ![na].sys = "ok"], a |-> dataptr]
          ELSE IF rd.st # "ok"
          THEN [st |-> rd.st,
                m |-> [m EXCEPT ![na] = Unfilled(THmap, off, mlen, m[na].sys)],
                a |-> dataptr]
          ELSE IF m[na].sys = "mprotect"
          THEN [st |-> "panic",
                m |-> [m EXCEPT ![na] = Region(THmap, rd.v, off, mlen, 0, 0)],
                a |-> dataptr]
          ELSE [st |-> "ok",
                m |-> [m EXCEPT ![na] = Region(THmap, rd.v, off, mlen, PageSize, mlen)],
                a |-> na]

\* Pointer(v)
Pointer(m, v) ==
  IF v = NilIface THEN [st |-> "ok", m |-> m, v |-> v]
  ELSE IF v.t.kind # "Ptr" THEN [st |-> "panic", m |-> m, v |-> v]
  ELSE LET r == copyAndFreeze(m, v.v.a, Size(v.t.elem), v.t.elem)
       IN [st |-> r.st, m |-> r.m, v |-> [v EXCEPT !.v.a = r.a]]

\* Slice(v)
Slice(m, v) ==
  IF v = NilIface THEN [st |-> "ok", m |-> m, v |-> v]
  ELSE IF v.t.kind # "Slice" THEN [st |-> "panic", m |-> m, v |-> v]
  ELSE LET r == copyAndFreeze(m, v.v.data, Size(v.t.elem) * v.v.len,
                              TArray(v.t.elem, v.v.len))
       IN [st |-> r.st, m |-> r.m, v |-> [v EXCEPT !.v.data = r.a]]

\* Map(v)
Map(m, v) ==
  IF v = NilIface THEN [st |-> "ok", m |-> m, v |-> v]
  ELSE IF v.t.kind # "Map" THEN [st |-> "panic", m |-> m, v |-> v]
  ELSE LET r == mapFreeze(m, v.v.a)
       IN [st |-> r.st, m |-> r.m, v |-> [v EXCEPT !.v.a = r.a]]

----------------------------------------------------------------------------
(* The Go runtime's map operations on an hmap, by the fields they touch.   *)
(* count is hmap's first field, flags the second, buckets the fifth.       *)

CountOff == 0
FlagsOff == CountSize
FlagsSize == 1
BucketsOff == 2 * WordSize
\* the iterator (1) and oldIterator (2) bits that starting an iteration sets
\* in hmap.flags
IterFlags == 1 + 2

FreeHeap(m) == {a \in HeapAddrs : m[a].st = "free"}
NewHeap(m) == CHOOSE a \in FreeHeap(m) : \A b \in FreeHeap(m) : a <= b

\* the entries of the map whose hmap is h
Entries(m, h) == IF h.buckets = 0 THEN {} ELSE m[h.buckets].val.ents
Keys(ents) == {e.key : e \in ents}

\* the hmap a map reference reads (its fields are all readable while mapped)
ReadHmap(m, a) == ReadAs(m, a, THmap)

\* len(m)
maplen(m, a) ==
  IF a = 0 THEN [st |-> "ok", n |-> 0]
  ELSE LET rd == ReadHmap(m, a) IN [st |-> rd.st, n |-> rd.v.count]

\* v, ok := m[key]
mapaccess(m, a, key) ==
  IF a = 0 THEN [st |-> "ok", found |-> FALSE, ents |-> {}]
  ELSE LET rd == ReadHmap(m, a) IN
    IF rd.st # "ok" THEN [st |-> rd.st, found |-> FALSE, ents |-> {}]
    ELSE IF rd.v.count = 0 THEN [st |-> "ok", found |-> FALSE, ents |-> {}]
    ELSE LET hit == {e \in Entries(m, rd.v) : e.key = key}
         IN [st |-> "ok", found |-> hit # {}, ents |-> hit]

\* starting an iteration (range, reflect's MapKeys): an empty map is left
\* alone, otherwise the iterator bits are set in flags unless already set
mapiterinit(m, a) ==
  IF a = 0 THEN [st |-> "ok", m |-> m, ents |-> {}]
  ELSE LET rd == ReadHmap(m, a) IN
    IF rd.st # "ok" THEN [st |-> rd.st, m |-> m, ents |-> {}]
    ELSE IF rd.v.count = 0 THEN [st |-> "ok", m |-> m, ents |-> {}]
    ELSE IF rd.v.flags = IterFlags \/ m[a].st = "foreign"
      THEN [st |-> "ok", m |-> m, ents |-> Entries(m, rd.v)]
    ELSE LET acc == Access(m, a, FlagsOff, FlagsSize, "w") IN
      IF acc # "ok" THEN [st |-> acc, m |-> m, ents |-> {}]
      ELSE [st |-> "ok", m |-> [m EXCEPT ![a].val.flags = IterFlags],
            ents |-> Entries(m, rd.v)]

\* m[key] = val: sets and clears the writing bit in flags, allocates the
\* buckets of a map that has none, stores the entry and counts a new key
mapassign(m, a, key, val) ==
  IF a = 0 THEN [st |-> "panic", m |-> m]
  ELSE LET rd == ReadHmap(m, a)
           accF == Access(m, a, FlagsOff, FlagsSize, "w")
           accB == Access(m, a, BucketsOff, WordSize, "w")
           accC == Access(m, a, CountOff, CountSize, "w")
       IN
    IF rd.st # "ok" THEN [st |-> rd.st, m |-> m]
    ELSE IF accF # "ok" THEN [st |-> accF, m |-> m]
    ELSE IF m[a].st = "foreign" THEN [st |-> "ok", m |-> m]
    ELSE IF rd.v.buckets = 0 /\ accB # "ok" THEN [st |-> accB, m |-> m]
    ELSE IF rd.v.buckets = 0 /\ FreeHeap(m) = {} THEN [st |-> "oom", m |-> m]
    ELSE LET nb == IF rd.v.buckets = 0 THEN NewHeap(m) ELSE rd.v.buckets
             old == IF rd.v.buckets = 0 THEN {} ELSE m[nb].val.ents
             isNew == key \notin Keys(old)
             ents == {e \in old : e.key # key} \cup {[key |-> key, val |-> val]}
             m1 == [m EXCEPT ![nb] = HeapBlock(TBuckets, BucketsV(ents)),
                             ![a].val.buckets = nb]
         IN IF ~isNew THEN [st |-> "ok", m |-> m1]
            ELSE IF accC # "ok" THEN [st |-> accC, m |-> m1]
            ELSE [st |-> "ok", m |-> [m1 EXCEPT ![a].val.count = @ + 1]]

\* delete(m, key): returns at once on a nil or empty map, else sets and
\* clears the writing bit, removes the entry and decrements count
mapdelete(m, a, key) ==
  IF a = 0 THEN [st |-> "ok", m |-> m]
  ELSE LET rd == ReadHmap(m, a)
           accF == Access(m, a, FlagsOff, FlagsSize, "w")
           accC == Access(m, a, CountOff, CountSize, "w")
       IN
    IF rd.st # "ok" THEN [st |-> rd.st, m |-> m]
    ELSE IF rd.v.count = 0 THEN [st |-> "ok", m |-> m]
    ELSE IF accF # "ok" THEN [st |-> accF, m |-> m]
    ELSE IF m[a].st = "foreign" \/ key \notin Keys(Entries(m, rd.v))
      THEN [st |-> "ok", m |-> m]
    ELSE LET m1 == [m EXCEPT ![rd.v.buckets].val.ents = {e \in @ : e.key # key}]
         IN IF accC # "ok" THEN [st |-> accC, m |-> m1]
            ELSE [st |-> "ok", m |-> [m1 EXCEPT ![a].val.count = @ - 1]]

----------------------------------------------------------------------------
(* Object and the recursive walk.                                          *)

\* hasPtrs: the kinds the walk descends into
hasPtrs(T) == T.kind \in {"Ptr", "Array", "Slice", "Map", "Struct"}

\* the test of the Struct case with the test for exported fields left out
DescendedOnlyEmbedded(f) == f.anonymous

\* the test of the Struct case: the field is exported or embedded
Descended(f) == ~(~f.exported /\ ~f.anonymous)

\* reflect refuses Set on a field reached through an unexported name
ReadOnlyField(T, i) == T.kind = "Struct" /\ ~T.fields[i].exported

NumComps(T) == IF T.kind = "Struct" THEN Len(T.fields) ELSE T.len
CompType(T, i) == IF T.kind = "Struct" THEN T.fields[i].typ ELSE T.elem
CompWalked(T, i) ==
  IF T.kind = "Struct" THEN Descended(T.fields[i]) /\ hasPtrs(T.fields[i].typ)
  ELSE TRUE

RECURSIVE object(_, _, _, _), objectComps(_, _, _, _, _), objectEntries(_, _, _, _, _)

\* the loops of the Array, Slice and Struct cases without the Set: each
\* component is walked and what the walk returns for it is dropped
objectCompsWithoutSet(m, T, v, loc, i) ==
  IF i > NumComps(T) THEN [st |-> "ok", m |-> m]
  ELSE IF ~CompWalked(T, i) THEN objectComps(m, T, v, loc, i + 1)
  ELSE LET kT == CompType(T, i) IN
    IF loc = NoLoc
    THEN LET r == object(m, kT, v.e[i], NoLoc)
         IN IF r.st # "ok" THEN [st |-> r.st, m |-> r.m]
            ELSE objectComps(r.m, T, v, loc, i + 1)
    ELSE LET kloc == Loc(loc.a, loc.p \o <<i>>)
             ld == Load(m, kloc, kT)
         IN IF ld.st # "ok" THEN [st |-> ld.st, m |-> m]
            ELSE LET r == object(m, kT, ld.v, kloc) IN
              IF r.st # "ok" THEN [st |-> r.st, m |-> r.m]
              ELSE objectComps(r.m, T, v, loc, i + 1)

\* the loops of the Array, Slice and Struct cases from component i on:
\* val.Index(i).Set(object(val.Index(i))), val.Field(i).Set(object(val.Field(i))).
\* loc is where the array or struct lives; NoLoc when val is not addressable
objectComps(m, T, v, loc, i) ==
  IF i > NumComps(T) THEN [st |-> "ok", m |-> m]
  ELSE IF ~CompWalked(T, i) THEN objectComps(m, T, v, loc, i + 1)
  ELSE LET kT == CompType(T, i) IN
    IF loc = NoLoc
    THEN LET r == object(m, kT, v.e[i], NoLoc)
         IN [st |-> IF r.st = "ok" THEN "panic" ELSE r.st, m |-> r.m]
    ELSE LET kloc == Loc(loc.a, loc.p \o <<i>>)
             ld == Load(m, kloc, kT)
         IN IF ld.st # "ok" THEN [st |-> ld.st, m |-> m]
            ELSE LET r == object(m, kT, ld.v, kloc) IN
              IF r.st # "ok" THEN [st |-> r.st, m |-> r.m]
              ELSE IF ReadOnlyField(T, i) THEN [st |-> "panic", m |-> r.m]
              ELSE LET s == Store(r.m, kloc, r.v, kT) IN
                IF s.st # "ok" THEN [st |-> s.st, m |-> s.m]
                ELSE objectComps(s.m, T, v, loc, i + 1)

\* the loop of the Map case over the entries still to copy:
\* newMap.SetMapIndex(object(key), object(val.MapIndex(key)))
objectEntries(m, T, todo, na, done) ==
  IF todo = {} THEN [st |-> "ok", m |-> m]
  ELSE LET e == CHOOSE x \in todo : TRUE
           rk == object(m, T.key, e.key, NoLoc)
       IN IF rk.st # "ok" THEN [st |-> rk.st, m |-> rk.m]
          ELSE LET rv == object(rk.m, T.elem, e.val, NoLoc) IN
            IF rv.st # "ok" THEN [st |-> rv.st, m |-> rv.m]
            ELSE LET s == mapassign(rv.m, na, rk.v, rv.v) IN
              IF s.st # "ok" THEN [st |-> s.st, m |-> s.m]
              ELSE objectEntries(s.m, T, todo \ {e}, na, done \cup {e})

\* object(val): val has type T and value v and lives at loc (NoLoc when it
\* is not addressable)
object(m, T, v, loc) ==
  CASE T.kind = "Ptr" ->
         IF v.a = 0 THEN [st |-> "ok", m |-> m, v |-> v]
         ELSE LET ploc == Loc(v.a, <<>>)
                  ld == Load(m, ploc, T.elem)
                  r == object(m, T.elem, ld.v, ploc)
                  s == Store(r.m, ploc, r.v, T.elem)
                  w == IF ~hasPtrs(T.elem) THEN [st |-> "ok", m |-> m]
                       ELSE IF ld.st # "ok" THEN [st |-> ld.st, m |-> m]
                       ELSE IF r.st # "ok" THEN [st |-> r.st, m |-> r.m]
                       ELSE s
              IN IF w.st # "ok" THEN [st |-> w.st, m |-> w.m, v |-> v]
                 ELSE LET f == Pointer(w.m, Iface(T, v))
                      IN [st |-> f.st, m |-> f.m, v |-> f.v.v]
    [] T.kind = "Array" ->
         LET w == IF hasPtrs(T.elem) THEN objectComps(m, T, v, loc, 1)
                  ELSE [st |-> "ok", m |-> m]
         IN [st |-> w.st, m |-> w.m,
             v |-> IF w.st = "ok" /\ loc # NoLoc THEN Load(w.m, loc, T).v ELSE v]
    [] T.kind = "Slice" ->
         LET w == IF hasPtrs(T.elem) /\ v.len > 0
                  THEN objectComps(m, TArray(T.elem, v.len), v, Loc(v.data, <<>>), 1)
                  ELSE [st |-> "ok", m |-> m]
         IN IF w.st # "ok" THEN [st |-> w.st, m |-> w.m, v |-> v]
            ELSE LET f == Slice(w.m, Iface(T, v))
                 IN [st |-> f.st, m |-> f.m, v |-> f.v.v]
    [] T.kind = "Map" ->
         IF hasPtrs(T.elem) \/ hasPtrs(T.key)
         THEN IF FreeHeap(m) = {} THEN [st |-> "oom", m |-> m, v |-> v]
              ELSE LET na == NewHeap(m)
                       m0 == [m EXCEPT ![na] = HeapBlock(THmap, Zero(THmap))]
                       it == mapiterinit(m0, v.a)
                       w == IF it.st # "ok" THEN [st |-> it.st, m |-> it.m]
                            ELSE objectEntries(it.m, T, it.ents, na, {})
                   IN IF w.st # "ok" THEN [st |-> w.st, m |-> w.m, v |-> v]
                      ELSE LET f == Map(w.m, Iface(T, MapV(na)))
                           IN [st |-> f.st, m |-> f.m, v |-> f.v.v]
         ELSE LET f == Map(m, Iface(T, v))
              IN [st |-> f.st, m |-> f.m, v |-> f.v.v]
    [] T.kind = "Struct" ->
         LET w == objectComps(m, T, v, loc, 1)
         IN [st |-> w.st, m |-> w.m,
             v |-> IF w.st = "ok" /\ loc # NoLoc THEN Load(w.m, loc, T).v ELSE v]
    [] OTHER -> [st |-> "ok", m |-> m, v |-> v]

\* Object without the switch on the root's kind
ObjectOfAnyKind(m, v) ==
  IF v = NilIface THEN [st |-> "ok", m |-> m, v |-> v]
  ELSE LET r == object(m, v.t, v.v, NoLoc)
       IN [st |-> r.st, m |-> r.m, v |-> Iface(v.t, r.v)]

\* Object(v)
Object(m, v) ==
  IF v = NilIface THEN [st |-> "ok", m |-> m, v |-> v]
  ELSE IF v.t.kind \in {"Ptr", "Slice", "Map"}
    THEN LET r == object(m, v.t, v.v, NoLoc)
         IN [st |-> r.st, m |-> r.m, v |-> Iface(v.t, r.v)]
  ELSE [st |-> "panic", m |-> m, v |-> v]

----------------------------------------------------------------------------
(* The walk on a stack of bounded depth, in the two versions of its Ptr    *)
(* case.  Every call of object takes a frame; a walk that needs more than  *)
(* the frames it has ends in "overflow".  With set, the Ptr case is the    *)
(* earlier one, val.Elem().Set(object(val.Elem())) whatever the pointee;   *)
(* without, the one that Sets only a pointee that can contain pointers.    *)

RECURSIVE walk(_, _, _, _, _, _), walkComps(_, _, _, _, _, _, _),
          walkEntries(_, _, _, _, _, _, _)

\* the loops of the Array, Slice and Struct cases from component i on
walkComps(set, d, m, T, v, loc, i) ==
  IF i > NumComps(T) THEN [st |-> "ok", m |-> m]
  ELSE IF ~CompWalked(T, i) THEN walkComps(set, d, m, T, v, loc, i + 1)
  ELSE LET kT == CompType(T, i) IN
    IF loc = NoLoc
    THEN LET r == walk(set, d, m, kT, v.e[i], NoLoc)
         IN [st |-> IF r.st = "ok" THEN "panic" ELSE r.st, m |-> r.m]
    ELSE LET kloc == Loc(loc.a, loc.p \o <<i>>)
             ld == Load(m, kloc, kT)
         IN IF ld.st # "ok" THEN [st |-> ld.st, m |-> m]
            ELSE LET r == walk(set, d, m, kT, ld.v, kloc) IN
              IF r.st # "ok" THEN [st |-> r.st, m |-> r.m]
              ELSE IF ReadOnlyField(T, i) THEN [st |-> "panic", m |-> r.m]
              ELSE LET s == Store(r.m, kloc, r.v, kT) IN
                IF s.st # "ok" THEN [st |-> s.st, m |-> s.m]
                ELSE walkComps(set, d, s.m, T, v, loc, i + 1)

\* the loop of the Map case over the entries still to copy
walkEntries(set, d, m, T, todo, na, done) ==
  IF todo = {} THEN [st |-> "ok", m |-> m]
  ELSE LET e == CHOOSE x \in todo : TRUE
           rk == walk(set, d, m, T.key, e.key, NoLoc)
       IN IF rk.st # "ok" THEN [st |-> rk.st, m |-> rk.m]
          ELSE LET rv == walk(set, d, rk.m, T.elem, e.val, NoLoc) IN
            IF rv.st # "ok" THEN [st |-> rv.st, m |-> rv.m]
            ELSE LET s == mapassign(rv.m, na, rk.v, rv.v) IN
              IF s.st # "ok" THEN [st |-> s.st, m |-> s.m]
              ELSE walkEntries(set, d, s.m, T, todo \ {e}, na, done \cup {e})

\* object(val) with d frames left on the stack: val has type T0 and value v
\* and lives at loc
walk(set, d, m, T0, v, loc) ==
  LET T == Resolve(T0) IN
  IF d = 0 THEN [st |-> "overflow", m |-> m, v |-> v]
  ELSE
  CASE T.kind = "Ptr" ->
         IF v.a = 0 THEN [st |-> "ok", m |-> m, v |-> v]
         ELSE LET E == Resolve(T.elem)
                  ploc == Loc(v.a, <<>>)
                  ld == Load(m, ploc, E)
                  r == walk(set, d - 1, m, E, ld.v, ploc)
                  s == Store(r.m, ploc, r.v, E)
                  w == IF ~set /\ ~hasPtrs(E) THEN [st |-> "ok", m |-> m]
                       ELSE IF ld.st # "ok" THEN [st |-> ld.st, m |-> m]
                       ELSE IF r.st # "ok" THEN [st |-> r.st, m |-> r.m]
                       ELSE s
              IN IF w.st # "ok" THEN [st |-> w.st, m |-> w.m, v |-> v]
                 ELSE LET f == Pointer(w.m, Iface(TPtr(E), v))
                      IN [st |-> f.st, m |-> f.m, v |-> f.v.v]
    [] T.kind = "Array" ->
         LET w == IF hasPtrs(T.elem) THEN walkComps(set, d - 1, m, T, v, loc, 1)
                  ELSE [st |-> "ok", m |-> m]
         IN [st |-> w.st, m |-> w.m,
             v |-> IF w.st = "ok" /\ loc # NoLoc THEN Load(w.m, loc, T).v ELSE v]
    [] T.kind = "Slice" ->
         LET w == IF hasPtrs(T.elem) /\ v.len > 0
                  THEN walkComps(set, d - 1, m, TArray(T.elem, v.len), v,
                                 Loc(v.data, <<>>), 1)
                  ELSE [st |-> "ok", m |-> m]
         IN IF w.st # "ok" THEN [st |-> w.st, m |-> w.m, v |-> v]
            ELSE LET f == Slice(w.m, Iface(T, v))
                 IN [st |-> f.st, m |-> f.m, v |-> f.v.v]
    [] T.kind = "Map" ->
         IF hasPtrs(T.elem) \/ hasPtrs(T.key)
         THEN IF FreeHeap(m) = {} THEN [st |-> "oom", m |-> m, v |-> v]
              ELSE LET na == NewHeap(m)
                       m0 == [m EXCEPT ![na] = HeapBlock(THmap, Zero(THmap))]
                       it == mapiterinit(m0, v.a)
                       w == IF it.st # "ok" THEN [st |-> it.st, m |-> it.m]
                            ELSE walkEntries(set, d - 1, it.m, T, it.ents, na, {})
                   IN IF w.st # "ok" THEN [st |-> w.st, m |-> w.m, v |-> v]
                      ELSE LET f == Map(w.m, Iface(T, MapV(na)))
                           IN [st |-> f.st, m |-> f.m, v |-> f.v.v]
         ELSE LET f == Map(m, Iface(T, v))
              IN [st |-> f.st, m |-> f.m, v |-> f.v.v]
    [] T.kind = "Struct" ->
         LET w == walkComps(set, d - 1, m, T, v, loc, 1)
         IN [st |-> w.st, m |-> w.m,
             v |-> IF w.st = "ok" /\ loc # NoLoc THEN Load(w.m, loc, T).v ELSE v]
    [] OTHER -> [st |-> "ok", m |-> m, v |-> v]

\* Object(v) on a stack of d frames, in the version of the Ptr case that set
\* tells
ObjectOn(set, d, m, v) ==
  IF v = NilIface THEN [st |-> "ok", m |-> m, v |-> v]
  ELSE IF v.t.kind \in {"Ptr", "Slice", "Map"}
    THEN LET r == walk(set, d, m, v.t, v.v, NoLoc)
         IN [st |-> r.st, m |-> r.m, v |-> Iface(v.t, r.v)]
  ELSE [st |-> "panic", m |-> m, v |-> v]

----------------------------------------------------------------------------
(* The caller: what it can reach and what it does.                         *)

\* what reading through a reference yields: the pointee, the first len
\* elements, or the length and entries of a map
View(m, x) ==
  CASE x.t.kind = "Ptr" -> ReadAs(m, x.v.a, x.t.elem)
    [] x.t.kind = "Slice" -> ReadAs(m, x.v.data, TArray(x.t.elem, x.v.len))
    [] x.t.kind = "Map" ->
         IF x.v.a = 0 THEN [st |-> "ok", v |-> [len |-> 0, ents |-> {}]]
         ELSE LET rd == ReadHmap(m, x.v.a)
              IN IF rd.st # "ok" THEN [st |-> rd.st, v |-> [len |-> 0, ents |-> {}]]
                 ELSE [st |-> "ok",
                       v |-> [len |-> rd.v.count, ents |-> Entries(m, rd.v)]]
    [] OTHER -> [st |-> "ok", v |-> x.v]

RECURSIVE Reach(_, _, _, _)
\* the pointers, slices and maps reachable from the value v of type T; walked
\* tells whether the path uses only edges the walk descends (pointees,
\* elements, map keys and values, exported fields)
Reach(m, T, v, walked) ==
  CASE T.kind = "Ptr" ->
         {[t |-> T, v |-> v, walked |-> walked]} \cup
         (LET rd == ReadAs(m, v.a, T.elem)
          IN IF v.a = 0 \/ rd.st # "ok" THEN {}
             ELSE Reach(m, T.elem, rd.v, walked))
    [] T.kind = "Slice" ->
         {[t |-> T, v |-> v, walked |-> walked]} \cup
         (LET rd == ReadAs(m, v.data, TArray(T.elem, v.len))
          IN IF v.len = 0 \/ rd.st # "ok" THEN {}
             ELSE UNION {Reach(m, T.elem, rd.v.e[i], walked) : i \in 1..v.len})
    [] T.kind = "Map" ->
         {[t |-> T, v |-> v, walked |-> walked]} \cup
         (LET vw == View(m, Iface(T, v))
          IN IF vw.st # "ok" THEN {}
             ELSE UNION {Reach(m, T.key, e.key, walked) \cup
                         Reach(m, T.elem, e.val, walked) : e \in vw.v.ents})
    [] T.kind = "Struct" ->
         UNION {Reach(m, T.fields[i].typ, v.e[i], walked /\ T.fields[i].exported)
                  : i \in 1..Len(T.fields)}
    [] T.kind = "Array" ->
         UNION {Reach(m, T.elem, v.e[i], walked) : i \in 1..T.len}
    [] OTHER -> {}

Refs(m, x) == Reach(m, x.t, x.v, TRUE)

\* the places a write through reference r can hit: the pointee and each of its
\* fields or elements, or an element of the slice
Targets(r) ==
  CASE r.t.kind = "Ptr" /\ r.v.a # 0 /\ Size(r.t.elem) > 0 ->
         {[loc |-> Loc(r.v.a, <<>>), t |-> r.t.elem]} \cup
         (IF r.t.elem.kind \in {"Struct", "Array"}
          THEN {[loc |-> Loc(r.v.a, <<i>>), t |-> CompType(r.t.elem, i)]
                  : i \in 1..NumComps(r.t.elem)}
          ELSE {})
    [] r.t.kind = "Slice" ->
         {[loc |-> Loc(r.v.data, <<i>>), t |-> r.t.elem] : i \in 1..r.v.len}
    [] OTHER -> {}

\* the values the caller writes
WriteVals(T) == IF T.kind = "Int" THEN {IntV(2)} ELSE {Zero(T)}

\* a protection fault ends the process; a panic is recovered by the caller
Outcome(st) == IF st = "fault" THEN "fault" ELSE "run"

Held(root) == IF root = "cur" THEN cur ELSE orig

\* An unmapped range may be handed out again by the kernel to another
\* mapping of the process, zero-filled and writable ("foreign"), so an access
\* through a reference to a released region either faults or lands in that
\* mapping.  Faced(m) is the set of memories the process may be facing.
Unmapped(m) == {a \in MmapAddrs : m[a].st = "unmapped"}
Faced(m) ==
  {[a \in Addrs |-> IF a \in fs THEN [m[a] EXCEPT !.st = "foreign"] ELSE m[a]]
     : fs \in SUBSET Unmapped(m)}
\* and the memory the model keeps: what the other mapping holds is not the
\* program's to know from one access to the next
Settle(m) ==
  [a \in Addrs |-> IF m[a].st = "foreign"
                   THEN [m[a] EXCEPT !.st = "unmapped", !.val = Zero(m[a].typ)]
                   ELSE [m[a] EXCEPT !.sys = "ok"]]

\* unix.Mmap and unix.Mprotect can fail.  SysFaced(m) is Faced(m) together
\* with the memories in which the kernel will fail one of the two calls for
\* one of the mappings the library asks for next.
SysFaced(m) ==
  Faced(m) \cup
  {[m0 EXCEPT ![a].sys = e] :
     m0 \in Faced(m), a \in FreeRegions(m), e \in {"mmap", "mprotect"}}

Init ==
  /\ mem = InitMem
  /\ orig \in Roots
  /\ cur = orig
  /\ status = "run"
  /\ hist = <<>>
  /\ last = [op |-> "init"]
  /\ nops = 0

\* the caller may make another call
CanCall == status = "run" /\ Len(hist) < MaxCalls

\* the call of unix.Mmap or unix.Mprotect that returned an error in the call
\* taking the memory m0 to r.m; "none" when every call made succeeded
SysError(m0, r) ==
  LET failed == {a \in MmapAddrs : m0[a].sys # "ok" /\ r.m[a].sys = "ok"}
  IN IF failed = {} THEN "none" ELSE m0[CHOOSE a \in failed : TRUE].sys

\* cur = fn(cur), where fn applied to cur in the memory m0 gives r.  (The
\* actions below hand the function over as an operator argument, which keeps
\* TLC's coverage statistics at the level of the actions.)
Returns(fn, m0, r) ==
  /\ r.st # "oom"
  /\ mem' = Settle(r.m)
  /\ cur' = IF r.st = "ok" THEN r.v ELSE cur
  /\ status' = Outcome(r.st)
  /\ hist' = Append(hist, [fn |-> fn, in |-> cur, out |-> r.v, st |-> r.st,
                           snap |-> View(m0, cur),
                           regs |-> Cardinality(FreeRegions(m0))
                                    - Cardinality(FreeRegions(r.m)),
                           err |-> SysError(m0, r)])
  /\ last' = [op |-> fn, st |-> r.st]
  /\ UNCHANGED <<orig, nops>>

CallPointer ==
  LET FreezePointer(F(_, _)) ==
        /\ CanCall
        /\ \E m0 \in Faced(mem) : LET r == F(m0, cur) IN Returns("Pointer", m0, r)
  IN FreezePointer(Pointer)

CallSlice ==
  LET FreezeSlice(F(_, _)) ==
        /\ CanCall
        /\ \E m0 \in Faced(mem) : LET r == F(m0, cur) IN Returns("Slice", m0, r)
  IN FreezeSlice(Slice)

CallMap ==
  LET FreezeMap(F(_, _)) ==
        /\ CanCall
        /\ \E m0 \in Faced(mem) : LET r == F(m0, cur) IN Returns("Map", m0, r)
  IN FreezeMap(Map)

CallObject ==
  LET FreezeObject(F(_, _)) ==
        /\ CanCall
        /\ \E m0 \in Faced(mem) : LET r == F(m0, cur) IN Returns("Object", m0, r)
  IN FreezeObject(Object)

\* the same calls with a kernel that may fail unix.Mmap or unix.Mprotect
SysCallPointer ==
  LET SysFreezePointer(F(_, _)) ==
        /\ CanCall
        /\ \E m0 \in SysFaced(mem) : LET r == F(m0, cur) IN Returns("Pointer", m0, r)
  IN SysFreezePointer(Pointer)

SysCallSlice ==
  LET SysFreezeSlice(F(_, _)) ==
        /\ CanCall
        /\ \E m0 \in SysFaced(mem) : LET r == F(m0, cur) IN Returns("Slice", m0, r)
  IN SysFreezeSlice(Slice)

SysCallMap ==
  LET SysFreezeMap(F(_, _)) ==
        /\ CanCall
        /\ \E m0 \in SysFaced(mem) : LET r == F(m0, cur) IN Returns("Map", m0, r)
  IN SysFreezeMap(Map)

SysCallObject ==
  LET SysFreezeObject(F(_, _)) ==
        /\ CanCall
        /\ \E m0 \in SysFaced(mem) : LET r == F(m0, cur) IN Returns("Object", m0, r)
  IN SysFreezeObject(Object)

\* the caller works on its values once it has frozen something; its loads
\* change nothing and are the operators Load, View, mapaccess and maplen
\* applied to a memory of Faced(mem)
CallerCanOperate == status = "run" /\ nops < MaxOps /\ Len(hist) > 0

\* a store through a reference reachable from cur or from orig
Write ==
  /\ CallerCanOperate
  /\ nops' = nops + 1
  /\ \E root \in {"cur", "orig"} :
       \E m0 \in Faced(mem) :
       \E r \in Refs(m0, Held(root)) : \E tg \in Targets(r) : \E x \in WriteVals(tg.t) :
         LET s == Store(m0, tg.loc, x, tg.t) IN
           /\ mem' = Settle(s.m)
           /\ status' = Outcome(s.st)
           /\ last' = [op |-> "write", root |-> root, ref |-> r, loc |-> tg.loc,
                       st |-> s.st]
  /\ UNCHANGED <<orig, cur, hist>>

\* the outcome of append(s, x) for the slice s of element type T
append(m, T, s, x) ==
  IF s.len < s.cap
  THEN LET w == Store(m, Loc(s.data, <<s.len + 1>>), x, T)
       IN [st |-> w.st, m |-> w.m, v |-> SliceV(s.data, s.len + 1, s.cap)]
  ELSE IF FreeHeap(m) = {} THEN [st |-> "oom", m |-> m, v |-> s]
  ELSE LET rd == ReadAs(m, s.data, TArray(T, s.len))
           na == NewHeap(m)
           es == [i \in 1..(s.len + 1) |-> IF i <= s.len THEN rd.v.e[i] ELSE x]
       IN IF rd.st # "ok" THEN [st |-> rd.st, m |-> m, v |-> s]
          ELSE [st |-> "ok",
                m |-> [m EXCEPT ![na] = HeapBlock(TArray(T, s.len + 1), ArrayV(es))],
                v |-> SliceV(na, s.len + 1, s.len + 1)]

\* cur = append(cur, x), or _ = append(orig, x)
AppendTo ==
  /\ CallerCanOperate
  /\ nops' = nops + 1
  /\ \E root \in {"cur", "orig"} :
       /\ Held(root).t.kind = "Slice"
       /\ \E m0 \in Faced(mem) :
          LET x == Held(root)
              r == append(m0, x.t.elem, x.v, Zero(x.t.elem))
          IN /\ r.st # "oom"
             /\ mem' = Settle(r.m)
             /\ status' = Outcome(r.st)
             /\ cur' = IF root = "cur" /\ r.st = "ok" THEN Iface(x.t, r.v) ELSE cur
             /\ last' = [op |-> "append", root |-> root, in |-> x, st |-> r.st,
                         out |-> Iface(x.t, r.v)]
  /\ UNCHANGED <<orig, hist>>

MapKeyVals == {IntV(1), IntV(2)}

\* m[k] = x on the map held in cur or orig
MapAssign ==
  /\ CallerCanOperate
  /\ nops' = nops + 1
  /\ \E root \in {"cur", "orig"} : \E k \in MapKeyVals :
       /\ Held(root).t.kind = "Map"
       /\ \E x \in WriteVals(Held(root).t.elem) : \E m0 \in Faced(mem) :
            LET r == mapassign(m0, Held(root).v.a, k, x) IN
              /\ r.st # "oom"
              /\ mem' = Settle(r.m)
              /\ status' = Outcome(r.st)
              /\ last' = [op |-> "mapassign", root |-> root, in |-> Held(root),
                          key |-> k, val |-> x, st |-> r.st,
                          before |-> View(m0, Held(root))]
  /\ UNCHANGED <<orig, cur, hist>>

\* delete(m, k)
MapDelete ==
  /\ CallerCanOperate
  /\ nops' = nops + 1
  /\ \E root \in {"cur", "orig"} : \E k \in MapKeyVals :
       /\ Held(root).t.kind = "Map"
       /\ \E m0 \in Faced(mem) : LET r == mapdelete(m0, Held(root).v.a, k) IN
            /\ mem' = Settle(r.m)
            /\ status' = Outcome(r.st)
            /\ last' = [op |-> "mapdelete", root |-> root, in |-> Held(root),
                        key |-> k, st |-> r.st, before |-> View(m0, Held(root))]
  /\ UNCHANGED <<orig, cur, hist>>

\* for k, v := range m
MapIter ==
  /\ CallerCanOperate
  /\ nops' = nops + 1
  /\ \E root \in {"cur", "orig"} :
       /\ Held(root).t.kind = "Map"
       /\ \E m0 \in Faced(mem) : LET r == mapiterinit(m0, Held(root).v.a) IN
            /\ mem' = Settle(r.m)
            /\ status' = Outcome(r.st)
            /\ last' = [op |-> "mapiter", root |-> root, in |-> Held(root),
                        st |-> r.st, ents |-> r.ents]
  /\ UNCHANGED <<orig, cur, hist>>

\* the bounded caller has a step left to take
CallerCanAct == CallerCanOperate \/ CanCall

\* the blocks the caller holds a reference to; the release of any other
\* region is not observable
RefAddrs(m, x) ==
  {IF r.t.kind = "Slice" THEN r.v.data ELSE r.v.a : r \in Refs(m, x)}

\* a release callback that lifts the protection and keeps the pages mapped
MprotectReadWrite(m, a) ==
  [m EXCEPT ![a].rofrom = 0, ![a].roto = 0, ![a].fin = FALSE]

\* the finalizer func(b *[]byte) { _ = unix.Munmap(*b) } run on the region at
\* a; the runtime clears a finalizer when it runs it
Munmap(m, a) ==
  [m EXCEPT ![a].st = "unmapped", ![a].val = Zero(m[a].typ), ![a].fin = FALSE]

\* the collector runs the finalizer set on &newMem: unix.Munmap(*b).  The
\* finalizer's object is the local slice header newMem, which nothing
\* refers to once copyAndFreeze or mapFreeze has returned
Finalize ==
  /\ status = "run"
  /\ CallerCanAct
  /\ \E a \in MmapAddrs \cap (RefAddrs(mem, cur) \cup RefAddrs(mem, orig)) :
       /\ mem[a].fin
       /\ mem' = Munmap(mem, a)
  /\ UNCHANGED <<orig, cur, status, hist, last, nops>>

\* the collector at large: the finalizer of any region runs, whether or not
\* the caller can still reach the region, and also once the caller is done
Collect ==
  /\ status = "run"
  /\ \E a \in MmapAddrs :
       /\ mem[a].fin
       /\ mem' = Munmap(mem, a)
  /\ UNCHANGED <<orig, cur, status, hist, last, nops>>

Next ==
  \/ CallPointer \/ CallSlice \/ CallMap \/ CallObject
  \/ Write \/ AppendTo
  \/ MapAssign \/ MapDelete \/ MapIter
  \/ Finalize

Spec == Init /\ [][Next]_vars

\* the same program started on the second heap
GraphInit ==
  /\ mem = GraphMem
  /\ orig \in GraphRoots
  /\ cur = orig
  /\ status = "run"
  /\ hist = <<>>
  /\ last = [op |-> "init"]
  /\ nops = 0

GraphSpec == GraphInit /\ [][Next]_vars

\* Object(cur) with room for d frames on the stack, where the walk applied to
\* cur in the memory m0 gives r; a stack that runs out ends the process
Ends(d, m0, r) ==
  /\ r.st # "oom"
  /\ mem' = Settle(r.m)
  /\ cur' = IF r.st = "ok" THEN r.v ELSE cur
  /\ status' = IF r.st = "overflow" THEN "overflow" ELSE Outcome(r.st)
  /\ hist' = Append(hist, [fn |-> "Object", in |-> cur, out |-> r.v, st |-> r.st,
                           snap |-> View(m0, cur),
                           regs |-> Cardinality(FreeRegions(m0))
                                    - Cardinality(FreeRegions(r.m)),
                           err |-> SysError(m0, r),
                           frames |-> d])
  /\ last' = [op |-> "Object", st |-> r.st]
  /\ UNCHANGED <<orig, nops>>

CallObjectOn ==
  LET FreezeObjectOn(F(_, _, _, _)) ==
        /\ CanCall
        /\ \E d \in 1..MaxDepth : \E m0 \in Faced(mem) :
              LET r == F(FALSE, d, m0, cur) IN Ends(d, m0, r)
  IN FreezeObjectOn(ObjectOn)

\* the program on the third heap, its stack bounded
WalkInit ==
  /\ mem = WalkMem
  /\ orig \in WalkRoots
  /\ cur = orig
  /\ status = "run"
  /\ hist = <<>>
  /\ last = [op |-> "init"]
  /\ nops = 0

WalkNext == CallPointer \/ CallSlice \/ CallObjectOn \/ Collect

WalkSpec == WalkInit /\ [][WalkNext]_vars

\* the library, a kernel that may fail a call, and the collector, which keeps
\* running: a finalizer that can run does run
LiveNext ==
  \/ SysCallPointer \/ SysCallSlice \/ SysCallMap \/ SysCallObject
  \/ Collect

LiveSpec == Init /\ [][LiveNext]_vars /\ WF_vars(Collect)

----------------------------------------------------------------------------
(* Properties.                                                             *)

Called == Len(hist) > 0
LastCall == hist[Len(hist)]

\* the last call was fn, it returned, and the caller still holds its result
HoldsResult(fn) ==
  /\ Called
  /\ status = "run"
  /\ LastCall.fn = fn
  /\ LastCall.st = "ok"
  /\ cur = LastCall.out

\* no region has been released so far
NoneReleased == \A a \in MmapAddrs : mem[a].st # "unmapped"

\* a non-nil pointer whose pointee has nonzero size, a slice with len > 0
FreezablePointer(x) == x.t.kind = "Ptr" /\ x.v.a # 0 /\ Size(x.t.elem) > 0
FreezableSlice(x) == x.t.kind = "Slice" /\ x.v.len > 0

\* the caller holds the handle Pointer or Slice returned for such an input
HoldsFrozenCopy ==
  \/ HoldsResult("Pointer") /\ FreezablePointer(LastCall.in)
  \/ HoldsResult("Slice") /\ FreezableSlice(LastCall.in)

\* every store through the handle x (to the pointee, to any of its fields or
\* elements, to any element of the slice) faults and changes nothing
EveryWriteFaults(m, x) ==
  \A tg \in Targets(x) : \A w \in WriteVals(tg.t) :
    LET s == Store(m, tg.loc, w, tg.t) IN s.st = "fault" /\ s.m = m

\* C1: after Pointer(p) returns h for a non-nil p with a pointee of nonzero
\* size, or Slice(s) returns t for a slice with len(s) > 0, every write
\* through h and every write to t[i], 0 <= i < len(t), faults and leaves the
\* frozen bytes unmodified.
C1_WriteThroughHandleFaults ==
  HoldsFrozenCopy => \A m0 \in Faced(mem) : EveryWriteFaults(m0, cur)

\* C1, as long as no region has been released.
C1_WriteFaultsWhileMapped ==
  HoldsFrozenCopy /\ NoneReleased => EveryWriteFaults(mem, cur)

\* C1: the handle is held, its region has been released and the range has
\* been mapped again: a store through the handle succeeds.
C1_ReleasedHandleWritten ==
  /\ HoldsFrozenCopy
  /\ \E m0 \in Faced(mem) : \E tg \in Targets(cur) : \E w \in WriteVals(tg.t) :
       Store(m0, tg.loc, w, tg.t).st = "ok"

\* the caller holds what Pointer returned for a non-nil pointer or what Slice
\* returned for a slice
HoldsSnapshot ==
  \/ HoldsResult("Pointer") /\ LastCall.in.t.kind = "Ptr" /\ LastCall.in.v.a # 0
  \/ HoldsResult("Slice") /\ LastCall.in.t.kind = "Slice"

\* C2: the handle returned by Pointer(p) (resp. Slice(s)) reads back exactly
\* what the pointee (resp. the first len(s) elements) held at the moment of
\* the call, whatever is written later to the original.
C2_HandleReadsSnapshot ==
  HoldsSnapshot => \A m0 \in Faced(mem) : View(m0, cur) = LastCall.snap

\* C2, as long as no region has been released.
C2_SnapshotWhileMapped ==
  HoldsSnapshot /\ NoneReleased => View(mem, cur) = LastCall.snap

\* C2: the handle is held, its region has been released: a read through the
\* handle faults.
C2_ReleasedHandleRead ==
  /\ HoldsSnapshot
  /\ LastCall.snap.st = "ok"
  /\ View(mem, cur).st = "fault"

\* the caller has appended to the slice the last call, Slice(s), returned
AppendedToFrozen ==
  /\ Called
  /\ LastCall.fn = "Slice"
  /\ LastCall.st = "ok"
  /\ LastCall.in.t.kind = "Slice"
  /\ last.op = "append"
  /\ last.root = "cur"
  /\ last.in = LastCall.out

\* every element of the slice x can be stored to
Writable(m, x) ==
  \A tg \in Targets(x) : \A w \in WriteVals(tg.t) : Store(m, tg.loc, w, tg.t).st = "ok"

\* C3: appending to the slice returned by Slice(s) faults if and only if
\* len(s) < cap(s); with len(s) = cap(s) the append succeeds and yields a
\* writable slice.
C3_AppendFaultsIffSpare ==
  AppendedToFrozen =>
    IF LastCall.in.v.len < LastCall.in.v.cap
    THEN last.st = "fault"
    ELSE last.st = "ok" /\ Writable(mem, last.out)

\* C3: Slice was given a slice of length 0 with spare capacity, nothing has
\* been released, and the append to what it returned did not fault.
C3_EmptySliceAppended ==
  /\ AppendedToFrozen
  /\ NoneReleased
  /\ LastCall.in.v.len = 0
  /\ LastCall.in.v.cap > 0
  /\ last.st = "ok"

\* the caller holds the map Map returned for a non-nil map
HoldsFrozenMap ==
  HoldsResult("Map") /\ LastCall.in.t.kind = "Map" /\ LastCall.in.v.a # 0

\* inserting a new key, overwriting an existing key and deleting an existing
\* key of the map x all fault
MapWritesFault(m, x) ==
  /\ \A k \in MapKeyVals : \A w \in WriteVals(x.t.elem) :
       mapassign(m, x.v.a, k, w).st = "fault"
  /\ \A k \in Keys(LastCall.snap.v.ents) : mapdelete(m, x.v.a, k).st = "fault"

\* lookup and len on the map x succeed and see the entries of the snapshot
MapLookupsSucceed(m, x) ==
  /\ \A k \in MapKeyVals :
       LET r == mapaccess(m, x.v.a, k) IN
         r.st = "ok" /\ r.ents = {e \in LastCall.snap.v.ents : e.key = k}
  /\ maplen(m, x.v.a) = [st |-> "ok", n |-> LastCall.snap.v.len]

\* an iteration over the map x succeeds and sees the entries of the snapshot
MapIterationSucceeds(m, x) ==
  LET it == mapiterinit(m, x.v.a) IN it.st = "ok" /\ it.ents = LastCall.snap.v.ents

\* C4: for every non-nil map m, after Map(m) returns m', inserting a new key,
\* overwriting an existing key and deleting a key of m' each fault, while
\* lookup, len and iteration on m' succeed and observe exactly the entries m
\* had at the time of the call.
C4_MapWritesFaultReadsSucceed ==
  HoldsFrozenMap =>
    \A m0 \in Faced(mem) :
      /\ MapWritesFault(m0, cur)
      /\ MapLookupsSucceed(m0, cur)
      /\ MapIterationSucceeds(m0, cur)

\* C4 without the iteration, as long as no region has been released and the
\* original map has not been written to.
C4_WritesFaultLookupsSucceed ==
  HoldsFrozenMap /\ NoneReleased /\ nops = 0 =>
    MapWritesFault(mem, cur) /\ MapLookupsSucceed(mem, cur)

\* C4: the caller has ranged over the map returned by Map for a non-empty map
\* that was never iterated before, nothing has been released, and the
\* iteration faulted.
C4_IterationFaulted ==
  /\ Called
  /\ LastCall.fn = "Map"
  /\ LastCall.st = "ok"
  /\ NoneReleased
  /\ last.op = "mapiter"
  /\ last.root = "cur"
  /\ last.in = LastCall.out
  /\ LastCall.snap.v.len > 0
  /\ last.st = "fault"

\* the caller holds what Object returned for a pointer, slice or map
HoldsFrozenObject ==
  HoldsResult("Object") /\ LastCall.in.t.kind \in {"Ptr", "Slice", "Map"}

\* a store through the reference r faults: to the pointee of a non-nil
\* pointer, to an element of a non-empty slice, to an entry of a non-nil map
WriteThroughFaults(m, r) ==
  IF r.t.kind = "Map"
  THEN r.v.a # 0 =>
         \A k \in MapKeyVals : \A w \in WriteVals(r.t.elem) :
           mapassign(m, r.v.a, k, w).st = "fault"
  ELSE EveryWriteFaults(m, r)

\* everything reachable from x through pointees, elements, map keys and
\* values and exported fields is read-only
ReachableIsReadOnly(m, x) ==
  \A r \in Refs(m, x) : r.walked => WriteThroughFaults(m, r)

\* C5: after Object(root) returns r, every non-nil pointer with a pointee of
\* nonzero size, every non-empty slice and every map reachable from r through
\* pointees, array and slice elements, map keys and values and exported
\* struct fields is backed by read-only memory: a write through any of them
\* faults.
C5_ReachableIsFrozen ==
  HoldsFrozenObject => \A m0 \in Faced(mem) : ReachableIsReadOnly(m0, cur)

\* C5, as long as no region has been released.
C5_ReachableFrozenWhileMapped ==
  HoldsFrozenObject /\ NoneReleased => ReachableIsReadOnly(mem, cur)

\* C5: the caller holds what Object returned, a region reachable from it has
\* been released and its range mapped again: a store through a reference
\* Object froze succeeds.
C5_ReleasedObjectWritten ==
  /\ HoldsFrozenObject
  /\ \E m0 \in Faced(mem) : \E r \in Refs(m0, cur) :
       /\ r.walked
       /\ \E tg \in Targets(r) : \E w \in WriteVals(tg.t) :
            Store(m0, tg.loc, w, tg.t).st = "ok"

\* the caller holds what Object returned for a pointer to a foo, a struct
\* with the exported field F *int and the unexported field g *int, both
\* non-nil at the call
HoldsFrozenFoo ==
  /\ HoldsResult("Object")
  /\ LastCall.in.t = TPtr(TFoo)
  /\ LastCall.in.v.a # 0
  /\ LastCall.snap.st = "ok"
  /\ LastCall.snap.v.e[1].a # 0
  /\ LastCall.snap.v.e[2].a # 0

\* a store through F faults, a store through g succeeds, a store to the
\* field g of the frozen struct faults
FooFrozenButForG(m, x) ==
  LET rd == ReadAs(m, x.v.a, TFoo) IN
    /\ rd.st = "ok"
    /\ Store(m, Loc(rd.v.e[1].a, <<>>), IntV(2), TInt).st = "fault"
    /\ Store(m, Loc(rd.v.e[2].a, <<>>), IntV(2), TInt).st = "ok"
    /\ Store(m, Loc(x.v.a, <<2>>), PtrV(0), TPtr(TInt)).st = "fault"

\* C6: for a struct r with an exported pointer field f and an unexported
\* pointer field g, after Object(&r) returns, a write through the
\* dereferenced f faults, a write through the dereferenced g does not fault,
\* and the field g itself, part of the frozen struct, is protected.
C6_ExportedFrozenUnexportedNot ==
  HoldsFrozenFoo => \A m0 \in Faced(mem) : FooFrozenButForG(m0, cur)

\* C6, as long as no region has been released.
C6_FooWhileMapped ==
  HoldsFrozenFoo /\ NoneReleased => FooFrozenButForG(mem, cur)

\* C6: the caller holds the frozen struct, the region F points to has been
\* released and its range mapped again: a store through F succeeds.
C6_ReleasedFieldWritten ==
  /\ HoldsFrozenFoo
  /\ \E m0 \in Faced(mem) :
       LET rd == ReadAs(m0, cur.v.a, TFoo) IN
         rd.st = "ok" /\ Store(m0, Loc(rd.v.e[1].a, <<>>), IntV(2), TInt).st = "ok"

\* the i-th and the following call are both fn, the first returned and the
\* second was given what the first returned
Twice(fn, i) ==
  /\ i + 1 <= Len(hist)
  /\ hist[i].fn = fn
  /\ hist[i].st = "ok"
  /\ hist[i + 1].fn = fn
  /\ hist[i + 1].in = hist[i].out

\* C7: for every valid input x (a pointer, a slice or a map), calling Object
\* on the value a previous Object(x) returned faults.
C7_ObjectTwiceFaults ==
  \A i \in 1..Len(hist) :
    Twice("Object", i) /\ hist[i].in.t.kind \in {"Ptr", "Slice", "Map"} =>
      hist[i + 1].st = "fault"

\* C7 for a pointer to a foo whose field F is not nil, as long as no region
\* has been released.
C7_FooTwiceFaults ==
  /\ Twice("Object", 1)
  /\ hist[1].in.t = TPtr(TFoo)
  /\ hist[1].snap.st = "ok"
  /\ hist[1].snap.v.e[1].a # 0
  /\ NoneReleased
  => hist[2].st = "fault"

\* C7: Object was called on what Object returned for a non-nil *int, nothing
\* has been released, and the second call returned.
C7_IntPointerTwiceAccepted ==
  /\ Twice("Object", 1)
  /\ hist[1].in.t = TPtr(TInt)
  /\ hist[1].in.v.a # 0
  /\ NoneReleased
  /\ hist[2].st = "ok"

\* Pointer on what Pointer returned for a pointer, or Slice on what Slice
\* returned for a slice, as the last two calls
FrozenAgain ==
  /\ Len(hist) >= 2
  /\ \/ Twice("Pointer", Len(hist) - 1) /\ hist[Len(hist) - 1].in.t.kind = "Ptr"
     \/ Twice("Slice", Len(hist) - 1) /\ hist[Len(hist) - 1].in.t.kind = "Slice"

\* the second call returned a copy in a region of its own when the input is
\* not empty, and both copies read as the first did when it was made
FurtherCopy(m) ==
  LET a == hist[Len(hist) - 1]
      b == LastCall
  IN /\ b.st = "ok"
     /\ FreezablePointer(a.in) \/ FreezableSlice(a.in) => b.regs = 1 /\ b.out # b.in
     /\ View(m, b.out) = a.snap
     /\ View(m, a.out) = a.snap

\* C8: calling Pointer on a pointer returned by Pointer, or Slice on a slice
\* returned by Slice, does not fault, returns a further frozen copy with the
\* same content, and leaves the first frozen copy as it was.
C8_FreezeTwiceCopiesAgain ==
  FrozenAgain => \A m0 \in Faced(mem) : FurtherCopy(m0)

\* C8, as long as no region has been released.
C8_TwiceWhileMapped ==
  FrozenAgain /\ NoneReleased => FurtherCopy(mem)

\* C8: the first copy was released before the second call, which faulted
\* reading it.
C8_SecondCallFaulted ==
  FrozenAgain /\ LastCall.st = "fault"

\* an absent input: the nil interface, or a nil pointer, slice or map
NilInput(x) ==
  \/ x = NilIface
  \/ x.t.kind = "Ptr" /\ x.v.a = 0
  \/ x.t.kind = "Slice" /\ x.v.data = 0
  \/ x.t.kind = "Map" /\ x.v.a = 0

\* the kind of input fn is meant for
Accepts(fn, x) ==
  \/ x = NilIface
  \/ fn = "Pointer" /\ x.t.kind = "Ptr"
  \/ fn = "Slice" /\ x.t.kind = "Slice"
  \/ fn = "Map" /\ x.t.kind = "Map"
  \/ fn = "Object" /\ x.t.kind \in {"Ptr", "Slice", "Map"}

\* C9: each of Pointer, Slice, Map and Object, given the nil interface or a
\* nil pointer, slice or map of a concrete type, returns that input unchanged
\* without faulting.
C9_NilReturnedUnchanged ==
  \A i \in 1..Len(hist) :
    NilInput(hist[i].in) /\ Accepts(hist[i].fn, hist[i].in) =>
      hist[i].st = "ok" /\ hist[i].out = hist[i].in

\* C9 for the nil interface and for nil slices.
C9_NilInterfaceAndNilSlice ==
  \A i \in 1..Len(hist) :
    /\ Accepts(hist[i].fn, hist[i].in)
    /\ hist[i].in = NilIface \/ (hist[i].in.t.kind = "Slice" /\ hist[i].in.v.data = 0)
    => hist[i].st = "ok" /\ hist[i].out = hist[i].in

\* C9: Pointer was given a nil *int and panicked with a nil dereference,
\* having mapped a region.
C9_NilPointerPanicked ==
  \E i \in 1..Len(hist) :
    /\ hist[i].fn = "Pointer"
    /\ hist[i].in = Iface(TPtr(TInt), PtrV(0))
    /\ hist[i].st = "nilpanic"
    /\ hist[i].regs = 1

\* the call c took no effect: it returned its input, data pointer included,
\* and mapped nothing
NoOp(c) == c.st = "ok" /\ c.out = c.in /\ c.regs = 0

\* Slice on a nil or zero-length slice, Pointer on a pointer to a zero-size
\* value, Object on nil
SliceOrPointerNoOpPath(c) ==
  \/ c.fn = "Slice" /\ c.in.t.kind = "Slice" /\ c.in.v.len = 0
  \/ c.fn = "Pointer" /\ c.in.t.kind = "Ptr" /\ c.in.v.a # 0 /\ Size(c.in.t.elem) = 0
  \/ c.fn = "Object" /\ c.in = NilIface

\* Map on a nil or empty map
MapNoOpPath(c) ==
  /\ c.fn = "Map"
  /\ c.in.t.kind = "Map"
  /\ c.in.v.a = 0 \/ (c.snap.st = "ok" /\ c.snap.v.len = 0)

\* C10 as stated: Slice on a nil or zero-length slice, Map on a nil or empty
\* map, Pointer on a pointer to a zero-size value and Object on nil create no
\* region and return a value whose data pointer equals the input's.
C10_NoOpPathsAllocateNothing ==
  \A i \in 1..Len(hist) :
    SliceOrPointerNoOpPath(hist[i]) \/ MapNoOpPath(hist[i]) => NoOp(hist[i])

\* C10 amended: Slice on a nil or zero-length slice, Pointer on a pointer to a
\* zero-size value, and each of the four functions on the nil interface
\* create no region and return their input unchanged; Map on an empty
\* non-nil map maps a region and returns a map with a new data pointer.
C10_NoOpPaths ==
  \A i \in 1..Len(hist) :
    /\ SliceOrPointerNoOpPath(hist[i]) \/ hist[i].in = NilIface => NoOp(hist[i])
    /\ MapNoOpPath(hist[i]) /\ hist[i].in.v.a # 0 /\ hist[i].st = "ok"
         => hist[i].regs = 1 /\ hist[i].out # hist[i].in

\* C10: Slice has been called on a non-nil slice of length 0 with spare
\* capacity and returned it as it was, mapping nothing.
C10_EmptySliceReturned ==
  \E i \in 1..Len(hist) :
    /\ hist[i].fn = "Slice"
    /\ hist[i].in.t.kind = "Slice"
    /\ hist[i].in.v.len = 0
    /\ hist[i].in.v.data # 0
    /\ NoOp(hist[i])

\* the step is a call of one of the four functions
CallStep == Len(hist') = Len(hist) + 1
\* the call this step makes
ThisCall == hist'[Len(hist')]

\* C11: Pointer on a non-pointer, Slice on a non-slice, Map on a non-map and
\* Object on a root that is not a pointer, slice or map each panic (the caller
\* recovers and goes on), having mapped no region and changed nothing in
\* memory, the input included.
C11_InvalidUsagePanicsFirst ==
  [][CallStep /\ ~Accepts(ThisCall.fn, cur) =>
       /\ ThisCall.st = "panic"
       /\ ThisCall.regs = 0
       /\ mem' = mem
       /\ cur' = cur
       /\ status' = "run"]_vars

\* C11: Object, then Pointer, has been handed an int; both calls panicked.
C11_WrongKindsRejected ==
  /\ Len(hist) = 2
  /\ hist[1].fn = "Object" /\ hist[1].in.t.kind = "Int" /\ hist[1].st = "panic"
  /\ hist[2].fn = "Pointer" /\ hist[2].in.t.kind = "Int" /\ hist[2].st = "panic"

\* the regions the caller holds a reference to, from cur or from orig
HeldRegions == MmapAddrs \cap (RefAddrs(mem, cur) \cup RefAddrs(mem, orig))

\* C12: the release callback of a region is never run while a live reference
\* to the handle returned for that region exists: under any interleaving of
\* the collector with the caller, no handle the caller still holds refers to
\* a region that has been released.
C12_NoHeldRegionReleased ==
  \A a \in HeldRegions : mem[a].st # "unmapped"

\* C12: the caller holds the pointer Pointer returned and the collector has
\* unmapped the region it points to.
C12_HeldHandleReleased ==
  /\ HoldsResult("Pointer")
  /\ FreezablePointer(LastCall.in)
  /\ cur.v.a \in MmapAddrs
  /\ mem[cur.v.a].st = "unmapped"

\* C13: every region the library allocates is eventually released: with a
\* collector that keeps running, each mapped region is unmapped in the end
\* (unless a fault has ended the process first), and it is released at most
\* once: a released region is never mapped again and has no finalizer left to
\* run.
C13_EveryRegionReleasedOnce ==
  /\ \A a \in MmapAddrs :
       (mem[a].st = "mapped") ~> (mem[a].st = "unmapped" \/ status = "fault")
  /\ [](\A a \in MmapAddrs : mem[a].st = "unmapped" => ~mem[a].fin)
  /\ [][\A a \in MmapAddrs : mem[a].st = "unmapped" => mem'[a].st = "unmapped"]_vars

\* C13: the two calls the caller makes are done, each mapped a region, and
\* the collector has released every region, the one the caller still holds
\* and the one it has let go of.
C13_AllRegionsReleased ==
  /\ Len(hist) = MaxCalls
  /\ \A i \in 1..Len(hist) : hist[i].st = "ok" /\ hist[i].regs > 0
  /\ \E a \in MmapAddrs : mem[a].st = "unmapped" /\ a \notin HeldRegions
  /\ \A a \in MmapAddrs : mem[a].st # "mapped"

\* the block is a mapped region with a read-only range
ReadOnly(b) == b.st = "mapped" /\ b.roto > b.rofrom

\* C14: once a region has been made read-only, no step of the library
\* (Pointer, Slice, Map, Object or a finalizer) and no step of the caller
\* makes any of it writable again: the region keeps its read-only range
\* until it is released.
C14_ReadOnlyUntilReleased ==
  [][\A a \in MmapAddrs :
       ReadOnly(mem[a]) =>
         \/ mem'[a].st = "unmapped"
         \/ /\ ReadOnly(mem'[a])
            /\ mem'[a].rofrom = mem[a].rofrom
            /\ mem'[a].roto = mem[a].roto
            /\ mem'[a].off = mem[a].off
            /\ mem'[a].mlen = mem[a].mlen]_vars

\* C14: the first call made a read-only region, a second call has been given
\* what the first returned and has made regions of its own, and the first
\* region is still there and read-only.
C14_FrozenRegionSurvivedACall ==
  /\ Len(hist) = 2
  /\ hist[1].st = "ok" /\ hist[1].regs > 0
  /\ hist[2].in = hist[1].out
  /\ hist[2].regs > 0
  /\ \E a \in MmapAddrs \cap RefAddrs(mem, hist[1].out) : ReadOnly(mem[a])
  /\ Cardinality({a \in MmapAddrs : ReadOnly(mem[a])}) >= 2

\* no store through the reference r faults: to the pointee or one of its
\* components, to an element of the slice, to an entry of the map
NoWriteThroughFaults(m, r) ==
  /\ \A tg \in Targets(r) : \A w \in WriteVals(tg.t) :
       Store(m, tg.loc, w, tg.t).st # "fault"
  /\ r.t.kind = "Map" =>
       /\ \A k \in MapKeyVals : \A w \in WriteVals(r.t.elem) :
            mapassign(m, r.v.a, k, w).st # "fault"
       /\ \A k \in MapKeyVals : mapdelete(m, r.v.a, k).st # "fault"

\* the original and everything reachable from it can be written to
OriginalIsMutable(m) == \A r \in Refs(m, orig) : NoWriteThroughFaults(m, r)

\* every call made so far has returned
AllReturned == Called /\ status = "run" /\ \A i \in 1..Len(hist) : hist[i].st = "ok"

\* C15: a caller who does not reassign the return value retains the mutable
\* original: after Pointer, Slice, Map or Object has returned, no write
\* through the caller's original reference, or through any reference reachable
\* from the original, faults.
C15_OriginalStaysMutable ==
  AllReturned => OriginalIsMutable(mem)

\* C15 for Pointer, Slice and Map: as long as Object has not been called, the
\* original and everything reachable from it can be written to.
C15_MutableAfterPointerSliceMap ==
  AllReturned /\ (\A i \in 1..Len(hist) : hist[i].fn # "Object") => OriginalIsMutable(mem)

\* C15: Object has returned for the original, a pointer, no region has been
\* released, and a store through a pointer that the original's pointee holds
\* has faulted.
C15_OriginalFaultedAfterObject ==
  /\ Len(hist) = 1
  /\ hist[1].fn = "Object"
  /\ hist[1].st = "ok"
  /\ hist[1].in = orig
  /\ orig.t.kind = "Ptr"
  /\ NoneReleased
  /\ last.op = "write"
  /\ last.root = "orig"
  /\ last.ref # [t |-> orig.t, v |-> orig.v, walked |-> TRUE]
  /\ last.st = "fault"

\* the caller holds what fn returned for a non-empty slice of pointers to
\* int, and nothing had been frozen before that call
HoldsSliceOfPointers(fn) ==
  /\ HoldsResult(fn)
  /\ LastCall.in.t = TSlice(TPtr(TInt))
  /\ LastCall.in.v.len > 0
  /\ \A i \in 1..(Len(hist) - 1) : hist[i].st # "ok"

\* a store of 2 through the pointer p succeeds and a later load sees the 2
WriteThroughIsSeen(m, p) ==
  LET s == Store(m, Loc(p.a, <<>>), IntV(2), TInt)
  IN s.st = "ok" /\ Load(s.m, Loc(p.a, <<>>), TInt) = [st |-> "ok", v |-> IntV(2)]

\* the slots of the slice x are read-only and the pointees of its non-nil
\* elements are writable
SlotsFrozenPointeesNot(m, x) ==
  LET rd == View(m, x) IN
    /\ rd.st = "ok"
    /\ EveryWriteFaults(m, x)
    /\ \A i \in 1..x.v.len : rd.v.e[i].a # 0 => WriteThroughIsSeen(m, rd.v.e[i])

\* the slots of the slice x are read-only and so are the pointees of its
\* non-nil elements
SlotsAndPointeesFrozen(m, x) ==
  LET rd == View(m, x) IN
    /\ rd.st = "ok"
    /\ EveryWriteFaults(m, x)
    /\ \A i \in 1..x.v.len :
         rd.v.e[i].a # 0 => Store(m, Loc(rd.v.e[i].a, <<>>), IntV(2), TInt).st = "fault"

\* C16: Slice is shallow: after Slice(s) on a slice of pointers, writes to the
\* element slots of the returned slice fault, but writes through the element
\* pointers to their pointees succeed and are observed by later reads; after
\* Object(s) the pointees are protected as well.
C16_SliceIsShallow ==
  /\ HoldsSliceOfPointers("Slice") => \A m0 \in Faced(mem) : SlotsFrozenPointeesNot(m0, cur)
  /\ HoldsSliceOfPointers("Object") => \A m0 \in Faced(mem) : SlotsAndPointeesFrozen(m0, cur)

\* C16, as long as no region has been released.
C16_ShallowWhileMapped ==
  NoneReleased =>
    /\ HoldsSliceOfPointers("Slice") => SlotsFrozenPointeesNot(mem, cur)
    /\ HoldsSliceOfPointers("Object") => SlotsAndPointeesFrozen(mem, cur)

\* C16: the caller holds what Slice returned for a slice of pointers, the
\* region of the slots has been released, and reading an element pointer
\* from the slice faults.
C16_ReleasedSlotsRead ==
  /\ HoldsSliceOfPointers("Slice")
  /\ LastCall.snap.st = "ok"
  /\ LastCall.snap.v.e[1].a # 0
  /\ View(mem, cur).st = "fault"

\* the address the reference r holds
AddrOf(r) == IF r.t.kind = "Slice" THEN r.v.data ELSE r.v.a

\* the reference r has bytes to freeze: a non-nil pointer to a value of
\* nonzero size, a non-empty slice, a non-nil map
HasBytes(r) ==
  CASE r.t.kind = "Ptr" -> r.v.a # 0 /\ Size(r.t.elem) > 0
    [] r.t.kind = "Slice" -> r.v.len > 0
    [] r.t.kind = "Map" -> r.v.a # 0
    [] OTHER -> FALSE

\* the references held by what r refers to, and those below them
Below(m, r) ==
  LET rd == View(m, Iface(r.t, r.v)) IN
    IF ~HasBytes(r) \/ rd.st # "ok" THEN {}
    ELSE CASE r.t.kind = "Ptr" -> Reach(m, r.t.elem, rd.v, TRUE)
           [] r.t.kind = "Slice" ->
                UNION {Reach(m, r.t.elem, rd.v.e[i], TRUE) : i \in 1..r.v.len}
           [] r.t.kind = "Map" ->
                UNION {Reach(m, r.t.key, e.key, TRUE) \cup Reach(m, r.t.elem, e.val, TRUE)
                         : e \in rd.v.ents}
           [] OTHER -> {}

\* every reference the walk descends from x refers to a region, and what that
\* region holds refers, along the edges the walk descends, to regions mapped
\* before it (mmap hands out the addresses in increasing order)
ChildrenFrozenFirst(m, x) ==
  \A r \in Refs(m, x) :
    r.walked /\ HasBytes(r) =>
      /\ AddrOf(r) \in MmapAddrs
      /\ \A c \in Below(m, r) :
           c.walked /\ HasBytes(c) => AddrOf(c) \in MmapAddrs /\ AddrOf(c) < AddrOf(r)

\* C17: Object freezes children before parents: in what an Object call
\* returned, every region holds, along the edges the walk descends, only
\* references to regions that were mapped before it, never to a child still
\* on the heap; and no step writes into a region that has been made
\* read-only.
C17_ChildrenBeforeParents ==
  /\ [](\A i \in 1..Len(hist) :
          hist[i].fn = "Object" /\ hist[i].st = "ok" => ChildrenFrozenFirst(mem, hist[i].out))
  /\ [][\A a \in MmapAddrs :
          ReadOnly(mem[a]) => mem'[a].st = "unmapped" \/ mem'[a].val = mem[a].val]_vars

\* C17: the caller holds what Object returned for a pointer to a foo; the
\* struct is in a region and its field F points to a region mapped earlier.
C17_FooFrozenAfterItsField ==
  /\ HoldsFrozenFoo
  /\ NoneReleased
  /\ cur.v.a \in MmapAddrs
  /\ LET rd == ReadAs(mem, cur.v.a, TFoo) IN
       /\ rd.st = "ok"
       /\ rd.v.e[1].a \in MmapAddrs
       /\ rd.v.e[1].a < cur.v.a

\* the region is protected as the function that mapped it means it to be:
\* all of it (copyAndFreeze), or from the page boundary on (mapFreeze)
Protected(b) ==
  /\ b.roto = b.mlen
  /\ b.rofrom = IF b.typ = THmap THEN PageSize ELSE 0

\* a call mapped a region and panicked on the error unix.Mprotect returned:
\* the region is mapped, filled and writable
MprotectFailed(c) == c.st = "panic" /\ c.regs > 0

\* C18: copyAndFreeze (n > 0) and mapFreeze return the new address only after
\* unix.Mprotect has succeeded: in no reachable state, the states in which
\* unix.Mmap or unix.Mprotect failed included, does the caller hold a
\* reference to a mapped region whose range is still writable; every call
\* that returned after mapping regions returned a handle into a region, and
\* a call that did not return has left the caller with the value it passed
\* in.
C18_NoHandleToWritableRegion ==
  /\ \A a \in HeldRegions : mem[a].st = "mapped" => Protected(mem[a])
  /\ \A i \in 1..Len(hist) :
       hist[i].st = "ok" /\ hist[i].regs > 0 => AddrOf(hist[i].out) \in MmapAddrs
  /\ Called /\ LastCall.st # "ok" /\ last.op = LastCall.fn => cur = LastCall.in

\* C18: unix.Mprotect failed in a call of Pointer, Slice or Map: the call
\* panicked, the region it mapped is still mapped and writable, and the
\* caller holds what it passed in, nothing else.
C18_MprotectFailedNoHandle ==
  /\ Len(hist) = 1
  /\ hist[1].fn # "Object"
  /\ Accepts(hist[1].fn, hist[1].in)
  /\ ~NilInput(hist[1].in)
  /\ MprotectFailed(hist[1])
  /\ cur = hist[1].in
  /\ \E a \in MmapAddrs : mem[a].st = "mapped" /\ ~ReadOnly(mem[a]) /\ a \notin HeldRegions

\* the regions mapFreeze has mapped and protected
FrozenHmaps == {a \in MmapAddrs : mem[a].typ = THmap /\ ReadOnly(mem[a])}

\* the layout of the region at a: pageSize + (size - offset) bytes, the hmap
\* at byte pageSize - offset, read-only from byte pageSize to the end
SplitLayout(b) ==
  /\ b.mlen = PageSize + (HmapSize - CountSize)
  /\ b.off = PageSize - CountSize
  /\ b.rofrom = PageSize
  /\ b.roto = b.mlen

\* count is the last offset bytes of the first page and every other byte of
\* the hmap lies at or after byte pageSize
CountAloneOnFirstPage(b) ==
  /\ b.off + CountOff = PageSize - CountSize
  /\ b.off + CountOff + CountSize = PageSize
  /\ \A o \in CountSize..(HmapSize - 1) : b.off + o >= PageSize
  /\ b.off + HmapSize = b.mlen

\* a store to count succeeds, a store to any other byte of the hmap faults,
\* and every byte can be read
OnlyCountWritable(m, a) ==
  /\ Access(m, a, CountOff, CountSize, "w") = "ok"
  /\ \A o \in CountSize..(HmapSize - 1) : Access(m, a, o, 1, "w") = "fault"
  /\ Access(m, a, FlagsOff, FlagsSize, "w") = "fault"
  /\ Access(m, a, BucketsOff, WordSize, "w") = "fault"
  /\ Access(m, a, 0, HmapSize, "r") = "ok"

OnlyCountFrozen(m, a) ==
  /\ Access(m, a, CountOff, CountSize, "w") = "fault"
  /\ \A o \in CountSize..(HmapSize - 1) : Access(m, a, o, 1, "w") = "ok"

\* the caller holds a non-nil map that Map or Object returned
HoldsMapFrom(fn) ==
  HoldsResult(fn) /\ LastCall.in.t.kind = "Map" /\ cur.v.a \in MmapAddrs

\* C20: as mapFreeze documents itself, of the map control structure only the
\* count field (the left page) is frozen and the rest of the structure (the
\* right page) remains mutable, so that map iteration, which modifies the
\* structure, does not fault on a frozen map.
C20_OnlyCountIsFrozen ==
  /\ \A a \in FrozenHmaps : OnlyCountFrozen(mem, a)
  /\ HoldsMapFrom("Map") \/ HoldsMapFrom("Object") =>
       \A m0 \in Faced(mem) : mapiterinit(m0, cur.v.a).st = "ok"

\* C20: the caller has ranged over the map Object returned for a map with a
\* pointer in it; nothing has been released, count is in writable memory,
\* and the iteration faulted on its write to flags.
C20_RangeOverFrozenMapFaulted ==
  /\ Called
  /\ LastCall.fn = "Object"
  /\ LastCall.st = "ok"
  /\ LastCall.in.t = TMap(TInt, TPtr(TInt))
  /\ NoneReleased
  /\ last.op = "mapiter"
  /\ last.root = "cur"
  /\ last.st = "fault"
  /\ cur.v.a \in FrozenHmaps
  /\ Access(mem, cur.v.a, CountOff, CountSize, "w") = "ok"
  /\ Access(mem, cur.v.a, FlagsOff, FlagsSize, "w") = "fault"

\* the kernel failed unix.Mmap or unix.Mprotect in the call c
SysFailed(c) == c.err # "none"

\* the call c ended in a failure the caller caught: it did not return and the
\* caller went on
Caught(c) == c.st # "ok" /\ c.st # "fault"

SameSlots(m, a, b) ==
  /\ View(m, a).st = "ok"
  /\ View(m, b).st = "ok"
  /\ View(m, a).v = View(m, b).v

\* every reference slot the walk descends below x holds a reference into a
\* region
FrozenSlots(m, x) ==
  \A c \in Below(m, x) : c.walked /\ HasBytes(c) => AddrOf(c) \in MmapAddrs

\* the last step of the program was a call of Object that returned
ObjectJustReturned ==
  /\ Called
  /\ LastCall.fn = "Object"
  /\ LastCall.st = "ok"
  /\ last.op = "Object"

\* C22: Object rewrites the caller's original storage in place before it
\* copies: after Object(root) has returned for a pointer or a slice, every
\* reference slot the walk descended in the original (pointee, element,
\* exported field) holds a frozen reference, the same one as the slot of the
\* returned copy, so that original and copy read the same; and the entries of
\* an original map are what they were before the call.
C22_OriginalRewrittenInPlace ==
  ObjectJustReturned =>
    /\ /\ LastCall.in.t.kind \in {"Ptr", "Slice"}
       /\ View(mem, LastCall.in).st = "ok"
       /\ View(mem, LastCall.out).st = "ok"
       => SameSlots(mem, LastCall.in, LastCall.out) /\ FrozenSlots(mem, LastCall.in)
    /\ LastCall.in.t.kind = "Map" /\ View(mem, LastCall.in).st = "ok"
       => View(mem, LastCall.in) = LastCall.snap

\* C22: Object has returned for a pointer to the foo on the heap; the heap foo
\* now has in F the pointer into a region that the returned copy has in F,
\* and in g the heap pointer it had.
C22_HeapFooHoldsFrozenF ==
  /\ ObjectJustReturned
  /\ Len(hist) = 1
  /\ orig = Iface(TPtr(TFoo), PtrV(3))
  /\ cur.v.a \in MmapAddrs
  /\ mem[3].st = "heap"
  /\ mem[3].val.e[1].a \in MmapAddrs
  /\ mem[cur.v.a].st = "mapped"
  /\ mem[cur.v.a].val.e[1] = mem[3].val.e[1]
  /\ mem[3].val.e[2] = PtrV(2)

\* C22: Object has returned for the map[int]*int on the heap: the returned map
\* has the entry with a pointer into a region, the original map the entry
\* with the heap pointer.
C22_HeapMapKeepsItsEntry ==
  /\ ObjectJustReturned
  /\ Len(hist) = 1
  /\ orig = Iface(TMap(TInt, TPtr(TInt)), MapV(9))
  /\ View(mem, orig).v.ents = {[key |-> IntV(1), val |-> PtrV(2)]}
  /\ View(mem, cur).st = "ok"
  /\ \E e \in View(mem, cur).v.ents : e.key = IntV(1) /\ e.val.a \in MmapAddrs

\* the call c is Object handed a map on the heap that is not nil
ObjectOnHeapMap(c) ==
  /\ c.fn = "Object"
  /\ c.in.t.kind = "Map"
  /\ c.in.v.a \in HeapAddrs

\* v2 is the frozen counterpart of the T-value v1: the same scalar, or a
\* reference into a region through which the same is read as through v1
FrozenValueOf(m, T, v2, v1) ==
  IF T.kind \in {"Ptr", "Slice", "Map"}
  THEN IF HasBytes(Iface(T, v1))
       THEN /\ AddrOf(Iface(T, v2)) \in MmapAddrs
            /\ SameSlots(m, Iface(T, v2), Iface(T, v1))
       ELSE v2 = v1
  ELSE v2 = v1

\* the entries e2 are, one for one, the frozen counterparts of the entries e1
FrozenEntriesOf(m, T, e2, e1) ==
  /\ Cardinality(e2) = Cardinality(e1)
  /\ \A e \in e1 : \E f \in e2 :
       /\ FrozenValueOf(m, T.key, f.key, e.key)
       /\ FrozenValueOf(m, T.elem, f.val, e.val)

\* what the call c returned is a map whose control structure is in a region,
\* frozen
ReturnedFrozenMap(c) ==
  /\ c.st = "ok"
  /\ c.out.v.a \in FrozenHmaps

\* the last step of the program was a call of Object on a heap map, and no
\* region has been released since
ObjectOnMapJustDone ==
  /\ Called
  /\ last.op = "Object"
  /\ ObjectOnHeapMap(LastCall)
  /\ NoneReleased

\* Object returned for the call c a frozen map: a new one with the frozen
\* counterparts of the input's entries when keys or values can contain
\* pointers, else the input's control structure, frozen, over the input's
\* buckets; and the input map has the entries it had
CopiedEntryForEntry(c) ==
  LET T == c.in.t
  IN /\ ReturnedFrozenMap(c)
     /\ View(mem, c.in) = c.snap
     /\ IF hasPtrs(T.key) \/ hasPtrs(T.elem)
        THEN /\ View(mem, c.out).st = "ok"
             /\ View(mem, c.out).v.len = c.snap.v.len
             /\ FrozenEntriesOf(mem, T, View(mem, c.out).v.ents, c.snap.v.ents)
             /\ ReadHmap(mem, c.out.v.a).v.buckets # ReadHmap(mem, c.in.v.a).v.buckets
        ELSE /\ View(mem, c.out) = c.snap
             /\ ReadHmap(mem, c.out.v.a).v.buckets = ReadHmap(mem, c.in.v.a).v.buckets

\* C23: when Object reaches a map whose key or value type can contain
\* pointers it returns a frozen new map with exactly one entry per entry of
\* the input map, each key and value being the recursively frozen key and
\* value of the input entry; when neither type can contain pointers the input
\* map's control structure is frozen with its entries reused unchanged; in
\* both cases the input map keeps its own entries.
C23_ObjectCopiesMapEntries ==
  ObjectOnMapJustDone => CopiedEntryForEntry(LastCall)

\* the walk is handed values of type T that it cannot rewrite: a struct or an
\* array that is not addressable, with a component to Set
SetsUnaddressable(T) ==
  /\ T.kind \in {"Struct", "Array"}
  /\ \E i \in 1..NumComps(T) : CompWalked(T, i) /\ hasPtrs(CompType(T, i))

\* C23 for the maps whose keys and values the walk can handle: as C23, for
\* every map whose key type and value type are not a struct or an array with
\* a component that can contain pointers.
C23_EntriesOfScalarsAndReferences ==
  /\ ObjectOnMapJustDone
  /\ ~SetsUnaddressable(LastCall.in.t.key)
  /\ ~SetsUnaddressable(LastCall.in.t.elem)
  => CopiedEntryForEntry(LastCall)

\* C23: Object was handed the map[int]foo, whose values hold pointers: the
\* call panicked (reflect refuses Set on a map value), having mapped a region
\* for the x of the value's F; the caller holds the map it passed in.
C23_StructValuedMapPanicked ==
  /\ Len(hist) = 1
  /\ hist[1].fn = "Object"
  /\ hist[1].in = Iface(TMap(TInt, TFoo), MapV(7))
  /\ hist[1].st = "panic"
  /\ hist[1].regs = 1
  /\ status = "run"
  /\ cur = orig

\* the last step of the program was a call of Object, returned or not, on a
\* pointer to a struct that could be read before the call and can be now
ObjectOnStructJustDone ==
  /\ Called
  /\ last.op = "Object"
  /\ LastCall.fn = "Object"
  /\ LastCall.in.t.kind = "Ptr"
  /\ LastCall.in.t.elem.kind = "Struct"
  /\ LastCall.snap.st = "ok"
  /\ View(mem, LastCall.in).st = "ok"

\* the fields of the struct type T that are not exported
Unexported(T) == {i \in 1..Len(T.fields) : ~T.fields[i].exported}

\* C24: Object never recurses into or overwrites a struct member that is not
\* exported, whatever the member's type and whether or not it is an embedded
\* (anonymous) member: after a call of Object every unexported member of the
\* struct the caller passed holds the value it held before the call, and so
\* does every unexported member of the copy Object returned.
C24_UnexportedMembersUntouched ==
  ObjectOnStructJustDone =>
    \A i \in Unexported(LastCall.in.t.elem) :
      /\ View(mem, LastCall.in).v.e[i] = LastCall.snap.v.e[i]
      /\ LastCall.st = "ok" /\ View(mem, LastCall.out).st = "ok"
         => View(mem, LastCall.out).v.e[i] = LastCall.snap.v.e[i]

\* C24 for the members that are unexported and not embedded: each holds after
\* a call of Object the value it held before, in the original and in the
\* copy.
C24_UnexportedNamedMembersUntouched ==
  ObjectOnStructJustDone =>
    \A i \in Unexported(LastCall.in.t.elem) :
      ~LastCall.in.t.elem.fields[i].anonymous =>
        /\ View(mem, LastCall.in).v.e[i] = LastCall.snap.v.e[i]
        /\ LastCall.st = "ok" /\ View(mem, LastCall.out).st = "ok"
           => View(mem, LastCall.out).v.e[i] = LastCall.snap.v.e[i]

\* C24: Object was handed the pointer to outer{inner{P: &x}}: the walk went
\* into the embedded member inner, which is not exported, mapped a region for
\* x and stored the pointer to it in inner.P of the caller's struct, and then
\* panicked on the Set of the member.
C24_EmbeddedMemberRewritten ==
  /\ Len(hist) = 1
  /\ hist[1].fn = "Object"
  /\ hist[1].in = Iface(TPtr(TOuter), PtrV(6))
  /\ hist[1].st = "panic"
  /\ hist[1].regs = 1
  /\ hist[1].snap.v.e[1] = StructV(<<PtrV(1)>>)
  /\ mem[6].st = "heap"
  /\ mem[6].val.e[1].e[1].a \in MmapAddrs

\* the first call of the program was Object, handed a pointer, a slice or a
\* map: nothing was frozen before it
ObjectCalledFirst ==
  /\ Called
  /\ hist[1].fn = "Object"
  /\ Accepts("Object", hist[1].in)
  /\ hist[1].err = "none"

\* C26: for every valid root (pointer, slice or map) whose graph is finite
\* and acyclic (a node may be referenced from several parents) and contains
\* no memory that was frozen before the call, Object returns normally:
\* provided allocation and permission changes succeed, it neither faults on
\* protected memory nor raises any other failure part-way through the walk.
C26_ObjectReturnsNormally ==
  ObjectCalledFirst => hist[1].st = "ok"

\* the walk from x comes by a reference twice under which it has two levels
\* of references to rewrite, by a struct or array value it cannot address,
\* or by an embedded member that is not exported; or x is a nil map
HardForTheWalk(x) ==
  \/ x.t.kind = "Map" /\ x.v.a = 0
  \/ x \in { Iface(TSlice(TPtr(TPtr(TPtr(TInt)))), SliceV(5, 2, 2)),
             Iface(TPtr(TOuter), PtrV(6)),
             Iface(TMap(TInt, TFoo), MapV(7)) }

\* C26 for the other roots: Object, called first, returns normally.
C26_ReturnsOnPlainRoots ==
  ObjectCalledFirst /\ ~HardForTheWalk(hist[1].in) => hist[1].st = "ok"

\* C26: Object was handed the slice []***int{&pp, &pp}, nothing of which was
\* frozen: walking the first element it froze x, p and pp and left the frozen
\* p in pp; walking the second element it came to pp again, followed it into
\* the frozen p, mapped a region for x once more and faulted on the store of
\* the new pointer into the frozen p.
C26_SharedNodeFaulted ==
  /\ Len(hist) = 1
  /\ hist[1].fn = "Object"
  /\ hist[1].in = Iface(TSlice(TPtr(TPtr(TPtr(TInt)))), SliceV(5, 2, 2))
  /\ hist[1].st = "fault"
  /\ hist[1].regs = 4
  /\ status = "fault"
  /\ mem[4].val.a \in MmapAddrs
  /\ ReadOnly(mem[mem[4].val.a])

----------------------------------------------------------------------------
(* C27: the walk that skips a pointer to a scalar against the walk that    *)
(* recurses into it and Sets the pointee to what it got.                   *)

\* the two walks end the same way on x in memory m: the same outcome and,
\* when they return, the same value in the same memory
SameWalk(m, x) ==
  LET a == Object(m, x)
      b == ObjectOn(TRUE, MaxDepth, m, x)
  IN a.st = b.st /\ (a.st = "ok" => a.v = b.v /\ a.m = b.m)

\* what the caller can hand to Object next
Handed == {orig, cur}

\* C27: skipping the recursion for a pointer to a scalar is a pure
\* optimization: whatever the caller hands to Object, in whatever state the
\* memory is, the walk that skips and the walk that recurses and writes the
\* scalar back return the same graph and fault on the same calls.
C27_SkipIsPureOptimization ==
  status = "run" => \A x \in Handed : SameWalk(mem, x)

\* C27 for memory in which nothing is frozen yet: no call was made, and the
\* two walks end the same way.
C27_SameOnUnfrozenMemory ==
  status = "run" /\ ~Called => \A x \in Handed : SameWalk(mem, x)

\* the bounded walk with the skip is the walk of object
C27_BoundedWalkIsObject ==
  status = "run" =>
    \A x \in Handed : LET a == Object(mem, x)
                          b == ObjectOn(FALSE, MaxDepth, mem, x)
                      IN a.st = b.st /\ a.v = b.v /\ a.m = b.m

\* C27: Object froze a *int and the caller holds the frozen pointer, its
\* region still mapped and read-only; handed that pointer again, the walk
\* that skips returns normally with one more copy, and the walk that Sets the
\* pointee faults on the store of the int into the frozen page.
C27_FrozenIntPointerTellsThemApart ==
  /\ status = "run"
  /\ Called
  /\ NoneReleased
  /\ LastCall.fn = "Object"
  /\ cur.t = TPtr(TInt)
  /\ cur.v.a \in MmapAddrs
  /\ ReadOnly(mem[cur.v.a])
  /\ Object(mem, cur).st = "ok"
  /\ ObjectOn(TRUE, MaxDepth, mem, cur).st = "fault"

----------------------------------------------------------------------------
(* C25: termination of the walk, and cycles in what it is handed.          *)

\* the values one edge below the value v of type T0 in memory m: the pointee
\* of a pointer, the elements of an array or slice, the keys and values of a
\* map, the exported fields of a struct and, with emb, its embedded ones
Kids(emb, m, T0, v) ==
  LET T == Resolve(T0) IN
  CASE T.kind = "Ptr" ->
         IF v.a = 0 THEN {}
         ELSE LET ld == Load(m, Loc(v.a, <<>>), Resolve(T.elem))
              IN IF ld.st = "ok" THEN {<<Resolve(T.elem), ld.v>>} ELSE {}
    [] T.kind = "Array" -> {<<T.elem, v.e[i]>> : i \in 1..T.len}
    [] T.kind = "Slice" ->
         {<<T.elem, Load(m, Loc(v.data, <<i>>), T.elem).v>> : i \in 1..v.len}
    [] T.kind = "Map" ->
         LET es == View(m, Iface(T, v)).v.ents
         IN {<<T.key, e.key>> : e \in es} \cup {<<T.elem, e.val>> : e \in es}
    [] T.kind = "Struct" ->
         {<<T.fields[i].typ, v.e[i]>> :
            i \in {j \in 1..Len(T.fields) :
                     T.fields[j].exported \/ (emb /\ T.fields[j].anonymous)}}
    [] OTHER -> {}

RECURSIVE Under(_, _, _)
\* the values of S and all that lies any number of edges below them
Under(emb, m, S) ==
  LET N == S \cup UNION {Kids(emb, m, n[1], n[2]) : n \in S}
  IN IF N = S THEN S ELSE Under(emb, m, N)

\* some value at or below x is reachable from itself
HasCycle(emb, m, x) ==
  \E n \in Under(emb, m, {<<x.t, x.v>>}) :
    n \in Under(emb, m, Kids(emb, m, n[1], n[2]))

\* the walk from x in memory m goes on until the stack is full, whatever room
\* the stack has
NeverEnds(m, x) ==
  \A d \in 1..MaxDepth : ObjectOn(FALSE, d, m, x).st = "overflow"

\* the walk from x in memory m comes to an end when the stack has room
Terminates(m, x) == ObjectOn(FALSE, MaxDepth, m, x).st # "overflow"

\* C25: Object terminates on every input in which no value is reachable from
\* itself through pointees, elements, keys, values and exported fields, and
\* on an input with such a cycle the recursion never terminates.
C25_TerminatesIffNoCycle ==
  status = "run" =>
    \A x \in Handed : IF HasCycle(FALSE, mem, x) THEN NeverEnds(mem, x)
                                                 ELSE Terminates(mem, x)

\* C25 with the edges the walk takes, embedded fields among them: without a
\* cycle Object terminates.
C25_TerminatesWithoutCycle ==
  status = "run" =>
    \A x \in Handed : ~HasCycle(TRUE, mem, x) => Terminates(mem, x)

\* C25 on memory in which nothing is frozen yet: with a cycle along the edges
\* the walk takes it never ends.
C25_NeverEndsOnUnfrozenCycle ==
  status = "run" /\ ~Called =>
    \A x \in Handed : HasCycle(TRUE, mem, x) => NeverEnds(mem, x)

\* no walk returns from a cycle: it never ends, or it stops part-way
C25_NoReturnFromCycle ==
  status = "run" =>
    \A x \in Handed : HasCycle(TRUE, mem, x) =>
      \A d \in 1..MaxDepth : ObjectOn(FALSE, d, mem, x).st # "ok"

\* C25: Object was handed a *hub whose only member is an embedded spoke that
\* points back to the hub, so that nothing is reachable from itself through
\* an exported field; the walk went into the spoke and round until the stack
\* was full, with all the room it could have.
C25_EmbeddedCycleOverflowed ==
  /\ Len(hist) = 1
  /\ hist[1].fn = "Object"
  /\ hist[1].in = Iface(TPtr(THub), PtrV(7))
  /\ hist[1].frames = MaxDepth
  /\ hist[1].st = "overflow"
  /\ status = "overflow"
  /\ ~HasCycle(FALSE, mem, hist[1].in)
  /\ HasCycle(TRUE, mem, hist[1].in)

\* C25: Pointer froze a chain that points to itself, and Object, handed the
\* frozen chain, faulted on the store of its first field before it came to
\* the second.
C25_FrozenCycleFaulted ==
  /\ Len(hist) = 2
  /\ hist[1].fn = "Pointer"
  /\ hist[1].in = Iface(TPtr(TChain), PtrV(9))
  /\ hist[1].st = "ok"
  /\ hist[2].fn = "Object"
  /\ hist[2].frames = MaxDepth
  /\ hist[2].st = "fault"
  /\ mem[9].val.e[2] = PtrV(9)

====
